---- MODULE Spec2Model ----
(***************************************************************************)
(* Interface topology resolver of the TrueNAS network exporter.            *)
(*                                                                         *)
(* The host (procfs, sysfs, Docker, LXC cgroups, VM tooling, VLAN config)  *)
(* is the environment; NetworkCollector.Collect is one atomic pass over    *)
(* it.  Go strings are sequences of one-character strings, so that prefix  *)
(* tests, trimming and index searches are computed as the code does.       *)
(***************************************************************************)
EXTENDS Integers, Sequences, FiniteSets, TLC

(***************************************************************************)
(* Go string helpers (package strings).                                    *)
(***************************************************************************)
Empty == << >>

\* strings.HasPrefix(s, p)
HasPrefix(s, p) == Len(s) >= Len(p) /\ SubSeq(s, 1, Len(p)) = p

\* strings.TrimPrefix(s, p)
TrimPrefix(s, p) == IF HasPrefix(s, p) THEN SubSeq(s, Len(p) + 1, Len(s)) ELSE s

\* sub occurs in s at 1-based position i
OccursAt(s, sub, i) == i + Len(sub) - 1 <= Len(s) /\ SubSeq(s, i, i + Len(sub) - 1) = sub

\* the first occurrence of sub in s at or after 1-based position i, as a 0-based
\* offset; -1 when there is none
RECURSIVE IndexFrom(_, _, _)
IndexFrom(s, sub, i) ==
    IF i + Len(sub) - 1 > Len(s) THEN -1
    ELSE IF OccursAt(s, sub, i) THEN i - 1
    ELSE IndexFrom(s, sub, i + 1)

\* strings.Index(s, sub): 0-based offset of the first occurrence, -1 when absent
Index(s, sub) == IndexFrom(s, sub, 1)

\* the last occurrence of sub in s at or before 1-based position i
RECURSIVE LastIndexFrom(_, _, _)
LastIndexFrom(s, sub, i) ==
    IF i < 1 THEN -1
    ELSE IF OccursAt(s, sub, i) THEN i - 1
    ELSE LastIndexFrom(s, sub, i - 1)

\* strings.LastIndex(s, sub): 0-based offset of the last occurrence, -1 when absent
LastIndex(s, sub) == LastIndexFrom(s, sub, Len(s) - Len(sub) + 1)

\* strings.Split(s, sep) for a one-byte separator
RECURSIVE Split(_, _)
Split(s, sep) ==
    LET idx == Index(s, <<sep>>)
    IN  IF idx < 0 THEN <<s>>
        ELSE <<SubSeq(s, 1, idx)>> \o Split(SubSeq(s, idx + 2, Len(s)), sep)

\* s[:n] and s[n:] with Go's 0-based offsets
Prefix(s, n) == SubSeq(s, 1, n)
Suffix(s, n) == SubSeq(s, n + 1, Len(s))

Digits == {"0", "1", "2", "3", "4", "5", "6", "7", "8", "9"}

UpperLetters == <<"A","B","C","D","E","F","G","H","I","J","K","L","M",
                  "N","O","P","Q","R","S","T","U","V","W","X","Y","Z">>
LowerLetters == <<"a","b","c","d","e","f","g","h","i","j","k","l","m",
                  "n","o","p","q","r","s","t","u","v","w","x","y","z">>

LowerOf ==
    [c \in {UpperLetters[k] : k \in 1..Len(UpperLetters)} |->
        LowerLetters[CHOOSE k \in 1..Len(UpperLetters) : UpperLetters[k] = c]]

\* strings.ToLower on ASCII text
ToLower(s) == [i \in 1..Len(s) |-> IF s[i] \in DOMAIN LowerOf THEN LowerOf[s[i]] ELSE s[i]]

WhiteSpace == {" ", "\t", "\n", "\r"}

\* the number of leading, and of trailing, white-space bytes of s
RECURSIVE LeadingSpace(_)
LeadingSpace(s) ==
    IF s # << >> /\ Head(s) \in WhiteSpace THEN 1 + LeadingSpace(Tail(s)) ELSE 0

RECURSIVE TrailingSpace(_, _)
TrailingSpace(s, n) ==
    IF n >= 1 /\ s[n] \in WhiteSpace THEN 1 + TrailingSpace(s, n - 1) ELSE 0

\* strings.TrimSpace
TrimSpace(s) ==
    IF LeadingSpace(s) = Len(s) THEN Empty
    ELSE SubSeq(s, LeadingSpace(s) + 1, Len(s) - TrailingSpace(s, Len(s)))

\* Go map read m[k]: the zero value (the empty string) when k is absent
Get(m, k) == IF k \in DOMAIN m THEN m[k] ELSE Empty

\* Go map write m[k] = v
Put(m, k, v) == [x \in (DOMAIN m) \cup {k} |-> IF x = k THEN v ELSE m[x]]

EmptyMap == [x \in {} |-> Empty]

\* every ordering of a finite set, as sequences (the orders a Go map range can take)
Orders(S) ==
    {o \in [1..Cardinality(S) -> S] : \A i, j \in 1..Cardinality(S) : o[i] = o[j] => i = j}


(***************************************************************************)
(* Text constants of the code and of the modelled host.                    *)
(***************************************************************************)
TxtIxDash      == <<"i","x","-">>
TxtSystem      == <<"s","y","s","t","e","m">>
TxtLoopback    == <<"l","o","o","p","b","a","c","k">>
TxtVeth        == <<"v","e","t","h">>
TxtVnet        == <<"v","n","e","t">>
TxtMacvtap     == <<"m","a","c","v","t","a","p">>
TxtMacvlan     == <<"m","a","c","v","l","a","n">>
TxtVlan        == <<"v","l","a","n">>
TxtBrDash      == <<"b","r","-">>
TxtBr          == <<"b","r">>
TxtDocker      == <<"d","o","c","k","e","r">>
TxtIncus       == <<"i","n","c","u","s">>
TxtLxcPayload  == <<"l","x","c",".","p","a","y","l","o","a","d",".">>
TxtInitScope   == <<"/","i","n","i","t",".","s","c","o","p","e">>
TxtUp          == <<"u","p">>
TxtDown        == <<"d","o","w","n">>
TxtUnknown     == <<"u","n","k","n","o","w","n">>
TxtLowerLayerDown == <<"l","o","w","e","r","l","a","y","e","r","d","o","w","n">>
ComposeProject == "com.docker.compose.project"

\* interface names of the modelled host
IfLo       == <<"l","o">>
IfEno1     == <<"e","n","o","1">>
IfBond0    == <<"b","o","n","d","0">>
IfVlan7    == <<"v","l","a","n","7">>
IfVlan8    == <<"v","l","a","n","8">>
IfBr0      == <<"b","r","0">>
IfBrAb     == <<"b","r","-","a","b">>
IfDocker0  == <<"d","o","c","k","e","r","0">>
IfVeth1    == <<"v","e","t","h","1">>
IfVeth2    == <<"v","e","t","h","2">>
IfVnet0    == <<"v","n","e","t","0">>
IfMacvtap0 == <<"m","a","c","v","t","a","p","0">>

Universe ==
    {IfLo, IfEno1, IfBond0, IfVlan7, IfVlan8, IfBr0, IfBrAb, IfDocker0,
     IfVeth1, IfVeth2, IfVnet0, IfMacvtap0}

\* names and texts held by the host's sources
Vid7        == <<"7">>
Vid8        == <<"8">>
NetGraf     == <<"i","x","-","g","r","a","f","_","d">>
NetMedia    == <<"i","x","-","_","m">>
NetBridge   == <<"b","r","i","d","g","e">>
NetPlain    == <<"l","a","n","_","a">>
CtrGrafName == <<"i","x","-","g","r","a","f","-","1">>
CtrWebName  == <<"w","e","b","-","2">>
ProjGraf    == <<"i","x","-","g","r","a","f">>
LxcName     == <<"c","t">>
VmName      == <<"p","i">>
CgroupInit  == <<"0",":",":","/","l","x","c",".","p","a","y","l","o","a","d",".","c","t","/","i","n","i","t",".","s","c","o","p","e">>
CgroupUser  == <<"0",":",":","/","l","x","c",".","p","a","y","l","o","a","d",".","c","t","/","u","s","e","r",".","s","l","i","c","e">>


(***************************************************************************)
(* collector/docker.go: application name of a container.                   *)
(***************************************************************************)
NoLabels == [k \in {} |-> Empty]

isNumeric(s) == (\A i \in 1..Len(s) : s[i] \in Digits) /\ Len(s) > 0

\* inspectContainer: the ContainerInfo built from an inspect response
inspectContainer(raw) ==
    [ID |-> raw.ID, Name |-> TrimPrefix(raw.Name, <<"/">>), PID |-> raw.PID,
     Labels |-> raw.Labels]

\* the loop of ListContainers over the listed ids; inspect[id] is the inspect
\* response of id, or << >> when the inspect call fails
RECURSIVE InspectScan(_, _, _)
InspectScan(ids, inspect, result) ==
    IF ids = << >> THEN result
    ELSE IF inspect[Head(ids)] = << >>
    THEN InspectScan(Tail(ids), inspect, result)
    ELSE InspectScan(Tail(ids), inspect,
                     Append(result, inspectContainer(inspect[Head(ids)][1])))

\* a listing that gives up when one inspect call fails
ListContainersAbort(listOK, ids, inspect) ==
    IF ~listOK \/ \E k \in 1..Len(ids) : inspect[ids[k]] = << >>
    THEN [err |-> TRUE, result |-> << >>]
    ELSE [err |-> FALSE, result |-> InspectScan(ids, inspect, << >>)]

\* ListContainers: listOK says whether the list call and its decoding succeed
ListContainers(listOK, ids, inspect) ==
    IF ~listOK
    THEN [err |-> TRUE, result |-> << >>]
    ELSE [err |-> FALSE, result |-> InspectScan(ids, inspect, << >>)]

\* a derivation that keeps the instance number of the container name
AppNameKeepNumber(c) ==
    IF ComposeProject \in DOMAIN c.Labels
    THEN TrimPrefix(c.Labels[ComposeProject], TxtIxDash)
    ELSE TrimPrefix(c.Name, TxtIxDash)

AppName(c) ==
    IF ComposeProject \in DOMAIN c.Labels
    THEN TrimPrefix(c.Labels[ComposeProject], TxtIxDash)
    ELSE LET name == TrimPrefix(c.Name, TxtIxDash)
             idx  == LastIndex(name, <<"-">>)
         IN  IF idx > 0 /\ isNumeric(Suffix(name, idx + 1))
             THEN Prefix(name, idx)
             ELSE name

(***************************************************************************)
(* collector/network.go: pure helpers.                                     *)
(***************************************************************************)
\* a derivation that strips the prefix but keeps the suffix after the underscore
appNameKeepSuffix(networkName) ==
    IF ~HasPrefix(networkName, TxtIxDash)
    THEN Empty
    ELSE TrimPrefix(networkName, TxtIxDash)

appNameFromDockerNetwork(networkName) ==
    IF ~HasPrefix(networkName, TxtIxDash)
    THEN Empty
    ELSE LET name == TrimPrefix(networkName, TxtIxDash)
             idx  == Index(name, <<"_">>)
         IN  IF idx > 0 THEN Prefix(name, idx) ELSE name

normalizeState(s0) ==
    LET s == TrimSpace(ToLower(s0))
    IN  IF s \in {TxtUp, TxtDown, TxtUnknown} THEN s
        ELSE IF s = Empty THEN TxtUnknown
        ELSE s

\* a line scan that accepts any scope after the container name
LXCLineAnyScope(line) ==
    LET idx == Index(line, TxtLxcPayload)
    IN  IF idx < 0 THEN Empty
        ELSE LET rest     == Suffix(line, idx + Len(TxtLxcPayload))
                 slashIdx == Index(rest, <<"/">>)
             IN  IF slashIdx <= 0 THEN Empty
                 ELSE Prefix(rest, slashIdx)

\* the scan of one line of a cgroup file: the container name, or Empty to go on
LXCLine(line) ==
    LET idx == Index(line, TxtLxcPayload)
    IN  IF idx < 0 THEN Empty
        ELSE LET rest     == Suffix(line, idx + Len(TxtLxcPayload))
                 slashIdx == Index(rest, <<"/">>)
             IN  IF slashIdx <= 0 THEN Empty
                 ELSE IF Suffix(rest, slashIdx) # TxtInitScope THEN Empty
                 ELSE Prefix(rest, slashIdx)

RECURSIVE LXCScan(_)
LXCScan(lines) ==
    IF lines = << >> THEN Empty
    ELSE IF LXCLine(Head(lines)) # Empty THEN LXCLine(Head(lines))
    ELSE LXCScan(Tail(lines))

parseLXCCgroup(data) == LXCScan(Split(data, "\n"))

(***************************************************************************)
(* collector/network.go: the counter file as text.  A uint64 is written as *)
(* its decimal digits without leading zeros, so that the whole range of    *)
(* the type is covered.                                                    *)
(***************************************************************************)
\* the n-th smallest element of a set of positions
Nth(P, n) == CHOOSE i \in P : Cardinality({x \in P : x < i}) = n - 1

\* strings.Fields: the maximal runs of non-space bytes, in order
Fields(s) ==
    LET starts == {i \in 1..Len(s) : s[i] \notin WhiteSpace /\ (i = 1 \/ s[i - 1] \in WhiteSpace)}
        last(i) == CHOOSE j \in i..Len(s) :
                      /\ \A k \in i..j : s[k] \notin WhiteSpace
                      /\ (j = Len(s) \/ s[j + 1] \in WhiteSpace)
    IN  [n \in 1..Cardinality(starts) |-> SubSeq(s, Nth(starts, n), last(Nth(starts, n)))]

\* strings.SplitN(s, sep, 2) for a one-byte separator: s cut at the first sep
SplitN2(s, sep) ==
    LET at == {i \in 1..Len(s) : s[i] = sep}
    IN  IF at = {} THEN <<s>>
        ELSE <<SubSeq(s, 1, Nth(at, 1) - 1), SubSeq(s, Nth(at, 1) + 1, Len(s))>>

DigitSeq == <<"0", "1", "2", "3", "4", "5", "6", "7", "8", "9">>

\* the decimal digits of a natural number (strconv.Itoa)
RECURSIVE Itoa(_)
Itoa(n) == IF n < 10 THEN <<DigitSeq[n + 1]>> ELSE Itoa(n \div 10) \o <<DigitSeq[(n % 10) + 1]>>

\* a digit text without its leading zeros
RECURSIVE StripZeros(_)
StripZeros(s) == IF Len(s) > 1 /\ Head(s) = "0" THEN StripZeros(Tail(s)) ELSE s

\* math.MaxUint64 = 2^64 - 1
MaxUint64 == <<"1","8","4","4","6","7","4","4","0","7","3","7","0","9","5","5","1","6","1","5">>

\* a > b for digit texts without leading zeros
DecGreater(a, b) ==
    \/ Len(a) > Len(b)
    \/ /\ Len(a) = Len(b)
       /\ \E i \in 1..Len(a) :
             /\ \A j \in 1..(i - 1) : a[j] = b[j]
             /\ (CHOOSE k \in 1..10 : DigitSeq[k] = a[i]) > (CHOOSE k \in 1..10 : DigitSeq[k] = b[i])

\* strconv.ParseUint(s, 10, 64): a syntax error for an empty text or a byte that
\* is not a digit (a sign included), a range error above MaxUint64
ParseUint(s) ==
    IF s = << >> \/ \E i \in 1..Len(s) : s[i] \notin Digits
    THEN [err |-> TRUE, v |-> <<"0">>]
    ELSE IF DecGreater(StripZeros(s), MaxUint64)
    THEN [err |-> TRUE, v |-> MaxUint64]
    ELSE [err |-> FALSE, v |-> StripZeros(s)]

\* a column mapping that takes the tx counters from fields 4..7
interfaceStatsShifted(vals) ==
    [RxBytes |-> vals[1], RxPackets |-> vals[2], RxErrors |-> vals[3], RxDropped |-> vals[4],
     TxBytes |-> vals[5], TxPackets |-> vals[6], TxErrors |-> vals[7], TxDropped |-> vals[8]]

\* the interfaceStats literal of parseProcNetDevLine (vals[0..15] is vals[1..16] here)
interfaceStats(vals) ==
    [RxBytes |-> vals[1], RxPackets |-> vals[2], RxErrors |-> vals[3], RxDropped |-> vals[4],
     TxBytes |-> vals[9], TxPackets |-> vals[10], TxErrors |-> vals[11], TxDropped |-> vals[12]]

NoStats == interfaceStats([i \in 1..16 |-> <<"0">>])

\* a line parser that reads a field it cannot parse as 0
parseProcNetDevLineLax(line) ==
    LET parts == SplitN2(line, ":")
    IN  IF Len(parts) # 2 THEN [err |-> TRUE, iface |-> Empty, s |-> NoStats]
        ELSE LET fields == Fields(parts[2])
             IN  IF Len(fields) < 16 THEN [err |-> TRUE, iface |-> Empty, s |-> NoStats]
                 ELSE [err |-> FALSE, iface |-> TrimSpace(parts[1]),
                       s |-> interfaceStats([i \in 1..16 |->
                                IF ParseUint(fields[i]).err THEN <<"0">>
                                ELSE ParseUint(fields[i]).v])]

\* parseProcNetDevLine
parseProcNetDevLine(line) ==
    LET parts == SplitN2(line, ":")
    IN  IF Len(parts) # 2 THEN [err |-> TRUE, iface |-> Empty, s |-> NoStats]
        ELSE LET fields == Fields(parts[2])
             IN  IF Len(fields) < 16 THEN [err |-> TRUE, iface |-> Empty, s |-> NoStats]
                 ELSE IF \E i \in 1..16 : ParseUint(fields[i]).err
                 THEN [err |-> TRUE, iface |-> Empty, s |-> NoStats]
                 ELSE [err |-> FALSE, iface |-> TrimSpace(parts[1]),
                       s |-> interfaceStats([i \in 1..16 |-> ParseUint(fields[i]).v])]

\* bufio.ScanLines over the whole text: the lines without their end-of-line
\* marker (a trailing carriage return dropped), no token after a final newline
ScanLines(text) ==
    LET nls    == {i \in 1..Len(text) : text[i] = "\n"}
        count  == Cardinality(nls) + (IF text # << >> /\ text[Len(text)] # "\n" THEN 1 ELSE 0)
        tok(n) == SubSeq(text,
                         IF n = 1 THEN 1 ELSE Nth(nls, n - 1) + 1,
                         IF n <= Cardinality(nls) THEN Nth(nls, n) - 1 ELSE Len(text))
    IN  [n \in 1..count |->
            IF tok(n) # << >> /\ tok(n)[Len(tok(n))] = "\r"
            THEN SubSeq(tok(n), 1, Len(tok(n)) - 1) ELSE tok(n)]

\* the scanner loop of readProcNetDev; lineNo is the number of lines read before
RECURSIVE ScanProcNetDev(_, _, _)
ScanProcNetDev(lines, lineNo, result) ==
    IF lines = << >> THEN result
    ELSE IF lineNo + 1 <= 2 THEN ScanProcNetDev(Tail(lines), lineNo + 1, result)
    ELSE LET r == parseProcNetDevLine(Head(lines))
         IN  IF r.err THEN ScanProcNetDev(Tail(lines), lineNo + 1, result)
             ELSE ScanProcNetDev(Tail(lines), lineNo + 1, Put(result, r.iface, r.s))

\* readProcNetDev on the text of the file; every line is shorter than the
\* scanner's buffer, so scanner.Err() is nil
readProcNetDevText(openOK, text) ==
    IF ~openOK THEN [err |-> TRUE, stats |-> EmptyMap]
    ELSE [err |-> FALSE, stats |-> ScanProcNetDev(ScanLines(text), 0, EmptyMap)]


(***************************************************************************)
(* The host: what the pass reads.  One record, changed by the environment. *)
(*   netdev      /proc/1/net/dev, parsed: interface -> counters            *)
(*   master      sysfs master link of each interface (Empty: no link)      *)
(*   ifindex     sysfs ifindex of each interface                           *)
(*   operstate   sysfs operstate text of each interface (Empty: unreadable)*)
(*   driver      interfaces that have a device/driver link                 *)
(*   vlanConfig  lines of /proc/1/net/vlan/config                          *)
(*   containers  what list + inspect of the inFlight containers returns     *)
(*   networks    what the network listing returns                          *)
(*   nsIflinks   pid -> iflink values seen under /proc/<pid>/root/sys      *)
(*   procs       numeric /proc entries in directory order, with cgroup text*)
(*   vms         vm.query entries; qemuIfaces: pid -> interfaces of its    *)
(*               descriptors; domIfaces: VM name -> virsh domiflist column *)
(* arg and ret belong to the specifications of single functions: arg is    *)
(* the input a function is called with, ret is << >> before the call and   *)
(* <<value>> after it.  inFlight belongs to the specification of           *)
(* concurrent passes: the collector's fields and the frame (position and   *)
(* local variables) of each pass; << >> when no pass is in progress.       *)
(***************************************************************************)
VARIABLES host, envChanges, passes, channel, arg, ret, inFlight

vars == <<host, envChanges, passes, channel, arg, ret, inFlight>>

passVars == <<host, envChanges, passes, channel, inFlight>>

\* number of changes the environment makes to the base host
MaxEnvChanges == 1

\* number of sources (besides the counter file) a pass may find unreachable
MaxSourcesDown == 1

Counters(n) ==
    [RxBytes |-> 10 * n, RxPackets |-> 10 * n + 1, RxErrors |-> 10 * n + 2,
     RxDropped |-> 10 * n + 3, TxBytes |-> 10 * n + 4, TxPackets |-> 10 * n + 5,
     TxErrors |-> 10 * n + 6, TxDropped |-> 10 * n + 7]

BaseIfindex ==
    (IfLo :> 1) @@ (IfEno1 :> 2) @@ (IfBond0 :> 3) @@ (IfVlan7 :> 4) @@ (IfVlan8 :> 5) @@
    (IfBr0 :> 6) @@ (IfBrAb :> 7) @@ (IfDocker0 :> 8) @@ (IfVeth1 :> 9) @@ (IfVeth2 :> 10) @@
    (IfVnet0 :> 11) @@ (IfMacvtap0 :> 12)

BaseMaster ==
    (IfEno1 :> IfBr0) @@ (IfVlan7 :> IfBr0) @@ (IfVeth1 :> IfBrAb) @@ (IfVeth2 :> IfBr0) @@
    (IfVnet0 :> IfBr0) @@ [i \in Universe |-> Empty]

BaseOperstate ==
    (IfLo :> TxtUnknown) @@ (IfBond0 :> TxtDown) @@ (IfVlan8 :> Empty) @@
    (IfMacvtap0 :> TxtLowerLayerDown) @@
    [i \in Universe |-> TxtUp]

\* one line of the VLAN config table: "<dev> | <id> | <parent>"
VlanLine(dev, id, parent) ==
    dev \o <<" ", " ", "|", " ">> \o id \o <<" ", " ", "|", " ">> \o parent

VlanHeader1 == <<"V","L","A","N"," ","D","e","v"," ","n","a","m","e"," ","|"," ","V","L","A","N"," ","I","D">>
VlanHeader2 == <<"N","a","m","e","-","T","y","p","e",":"," ","R","A","W">>

CtrGraf == [ID |-> "c1", Name |-> CtrGrafName, PID |-> 10,
            Labels |-> (ComposeProject :> ProjGraf)]
CtrWeb  == [ID |-> "c2", Name |-> CtrWebName, PID |-> 11, Labels |-> NoLabels]

NetworkGraf   == [ID |-> "n1", Name |-> NetGraf,   BridgeName |-> IfBrAb]
NetworkBridge == [ID |-> "n2", Name |-> NetBridge, BridgeName |-> IfDocker0]
NetworkPlain  == [ID |-> "n3", Name |-> NetPlain,  BridgeName |-> IfBrAb]
NetworkMedia  == [ID |-> "n4", Name |-> NetMedia,  BridgeName |-> IfBrAb]
NetworkHost   == [ID |-> "n5", Name |-> NetBridge, BridgeName |-> Empty]

BaseHost ==
    [netdev     |-> [i \in Universe |-> Counters(BaseIfindex[i])],
     master     |-> BaseMaster,
     ifindex    |-> BaseIfindex,
     operstate  |-> BaseOperstate,
     driver     |-> {IfEno1},
     vlanConfig |-> <<VlanHeader1, VlanHeader2,
                      VlanLine(IfVlan7, Vid7, IfEno1), VlanLine(IfVlan8, Vid8, IfEno1)>>,
     containers |-> <<CtrGraf, CtrWeb>>,
     networks   |-> <<NetworkGraf, NetworkBridge>>,
     nsIflinks  |-> (10 :> <<9>>) @@ (11 :> << >>) @@ (20 :> <<10>>) @@ (21 :> <<10>>),
     procs      |-> <<[pid |-> 1, cgroup |-> Empty],
                      [pid |-> 20, cgroup |-> CgroupInit],
                      [pid |-> 21, cgroup |-> CgroupUser]>>,
     vms        |-> <<[name |-> VmName, state |-> "RUNNING", pid |-> 30]>>,
     qemuIfaces |-> (30 :> <<IfVnet0, IfMacvtap0>>),
     domIfaces  |-> (VmName :> <<IfVnet0>>)]

(***************************************************************************)
(* Fact readers and source correlation (collector/network.go).             *)
(***************************************************************************)
TxtVLANHeader == <<"V","L","A","N">>
TxtNameType   == <<"N","a","m","e","-","T","y","p","e",":">>

\* a reader that swallows the open error and returns an empty map
readProcNetDevSwallow(h, procOK) ==
    IF procOK THEN [err |-> FALSE, stats |-> h.netdev]
    ELSE [err |-> FALSE, stats |-> EmptyMap]

\* readProcNetDev: the counter map, or an error when the file cannot be read
readProcNetDev(h, procOK) ==
    IF procOK THEN [err |-> FALSE, stats |-> h.netdev]
    ELSE [err |-> TRUE, stats |-> EmptyMap]

\* a scan that does not know the header lines by their prefix
RECURSIVE VLANScanAnyPrefix(_, _)
VLANScanAnyPrefix(lines, result) ==
    IF lines = << >> THEN result
    ELSE LET line  == Head(lines)
             parts == Split(line, "|")
         IN  IF TrimSpace(line) = Empty \/ Len(parts) < 3
             THEN VLANScanAnyPrefix(Tail(lines), result)
             ELSE IF TrimSpace(parts[1]) # Empty /\ TrimSpace(parts[2]) # Empty
             THEN VLANScanAnyPrefix(Tail(lines),
                                    Put(result, TrimSpace(parts[1]),
                                        [ID |-> TrimSpace(parts[2]), Parent |-> TrimSpace(parts[3])]))
             ELSE VLANScanAnyPrefix(Tail(lines), result)

RECURSIVE VLANScan(_, _)
VLANScan(lines, result) ==
    IF lines = << >> THEN result
    ELSE LET line  == Head(lines)
             parts == Split(line, "|")
         IN  IF HasPrefix(line, TxtVLANHeader) \/ HasPrefix(line, TxtNameType)
                \/ TrimSpace(line) = Empty
             THEN VLANScan(Tail(lines), result)
             ELSE IF Len(parts) < 3
             THEN VLANScan(Tail(lines), result)
             ELSE LET devName == TrimSpace(parts[1])
                      vlanID  == TrimSpace(parts[2])
                      parent  == TrimSpace(parts[3])
                  IN  IF devName # Empty /\ vlanID # Empty
                      THEN VLANScan(Tail(lines),
                                    Put(result, devName, [ID |-> vlanID, Parent |-> parent]))
                      ELSE VLANScan(Tail(lines), result)

buildVLANMap(h, vlanOK) ==
    IF ~vlanOK THEN EmptyMap ELSE VLANScan(h.vlanConfig, EmptyMap)

buildBridgeMap(stats, h) ==
    [i \in {x \in DOMAIN stats : h.master[x] # Empty} |-> h.master[i]]

buildIfindexMap(stats, h) ==
    [n \in {h.ifindex[x] : x \in {y \in DOMAIN stats : h.ifindex[y] > 0}} |->
        CHOOSE x \in DOMAIN stats : h.ifindex[x] = n]

findContainerIflinks(h, pid) ==
    IF pid \in DOMAIN h.nsIflinks THEN h.nsIflinks[pid] ELSE << >>

\* for _, hostIfindex := range iflinks { if hostIface, ok := ifindexMap[...]; ok { m[hostIface] = v } }
RECURSIVE MapIflinks(_, _, _, _)
MapIflinks(iflinks, ifindexMap, m, v) ==
    IF iflinks = << >> THEN m
    ELSE IF Head(iflinks) \in DOMAIN ifindexMap
    THEN MapIflinks(Tail(iflinks), ifindexMap, Put(m, ifindexMap[Head(iflinks)], v), v)
    ELSE MapIflinks(Tail(iflinks), ifindexMap, m, v)

RECURSIVE VethScan(_, _, _, _)
VethScan(cs, h, ifindexMap, vethMap) ==
    IF cs = << >> THEN vethMap
    ELSE IF Head(cs).PID <= 0
    THEN VethScan(Tail(cs), h, ifindexMap, vethMap)
    ELSE VethScan(Tail(cs), h, ifindexMap,
                  MapIflinks(findContainerIflinks(h, Head(cs).PID), ifindexMap, vethMap, Head(cs)))

RECURSIVE NetScan(_, _)
NetScan(ns, netMap) ==
    IF ns = << >> THEN netMap
    ELSE IF Head(ns).BridgeName # Empty
    THEN NetScan(Tail(ns), Put(netMap, Head(ns).BridgeName, Head(ns)))
    ELSE NetScan(Tail(ns), netMap)

\* a fetch that lists containers and networks without the liveness probe
fetchDockerDataNoProbe(ifindexMap, h, docker) ==
    [vethMap |-> IF docker.list
                 THEN VethScan(h.containers, h, ifindexMap, EmptyMap)
                 ELSE EmptyMap,
     netMap  |-> IF docker.nets THEN NetScan(h.networks, EmptyMap) ELSE EmptyMap]

\* a fetch that returns as soon as the container listing fails
fetchDockerDataAbortOnList(ifindexMap, h, docker) ==
    IF ~docker.available \/ ~docker.list
    THEN [vethMap |-> EmptyMap, netMap |-> EmptyMap]
    ELSE [vethMap |-> VethScan(h.containers, h, ifindexMap, EmptyMap),
          netMap  |-> IF docker.nets THEN NetScan(h.networks, EmptyMap) ELSE EmptyMap]

\* fetchDockerData: docker.available is the liveness probe, docker.list and
\* docker.nets say whether each listing call succeeds
fetchDockerData(ifindexMap, h, docker) ==
    IF ~docker.available
    THEN [vethMap |-> EmptyMap, netMap |-> EmptyMap]
    ELSE [vethMap |-> IF docker.list
                      THEN VethScan(h.containers, h, ifindexMap, EmptyMap)
                      ELSE EmptyMap,
          netMap  |-> IF docker.nets THEN NetScan(h.networks, EmptyMap) ELSE EmptyMap]

RECURSIVE IncusScan(_, _, _, _)
IncusScan(entries, h, ifindexMap, result) ==
    IF entries = << >> THEN result
    ELSE LET e             == Head(entries)
             containerName == parseLXCCgroup(e.cgroup)
         IN  IF e.pid <= 1 \/ e.cgroup = Empty \/ containerName = Empty
                \/ (\E k \in DOMAIN result : result[k] = containerName)
             THEN IncusScan(Tail(entries), h, ifindexMap, result)
             ELSE IncusScan(Tail(entries), h, ifindexMap,
                            MapIflinks(findContainerIflinks(h, e.pid), ifindexMap,
                                       result, containerName))

buildIncusMapping(ifindexMap, h, cgroupOK) ==
    IF ~cgroupOK THEN EmptyMap ELSE IncusScan(h.procs, h, ifindexMap, EmptyMap)

\* result[iface] = name for every iface of the list
RECURSIVE MapIfaces(_, _, _)
MapIfaces(ifaces, m, name) ==
    IF ifaces = << >> THEN m
    ELSE MapIfaces(Tail(ifaces), Put(m, Head(ifaces), name), name)

\* a filter that keeps every RUNNING entry, whatever its pid
queryMidcltVMsAnyPid(h) ==
    SelectSeq(h.vms, LAMBDA r : r.state = "RUNNING")

\* queryMidcltVMs: the entries that are RUNNING with a positive pid
queryMidcltVMs(h) ==
    SelectSeq(h.vms, LAMBDA r : r.state = "RUNNING" /\ r.pid > 0)

findQEMUInterfaces(h, pid) ==
    IF pid \in DOMAIN h.qemuIfaces THEN h.qemuIfaces[pid] ELSE << >>

RECURSIVE MidcltScan(_, _, _)
MidcltScan(vs, h, result) ==
    IF vs = << >> THEN result
    ELSE IF Head(vs).pid <= 0 THEN MidcltScan(Tail(vs), h, result)
    ELSE MidcltScan(Tail(vs), h,
                    MapIfaces(findQEMUInterfaces(h, Head(vs).pid), result, Head(vs).name))

\* runVirshListNames: the running domains
runVirshListNames(h) ==
    LET running == SelectSeq(h.vms, LAMBDA r : r.state = "RUNNING")
    IN  [k \in 1..Len(running) |-> running[k].name]

RECURSIVE VirshScan(_, _, _)
VirshScan(names, h, result) ==
    IF names = << >> THEN result
    ELSE IF Head(names) \notin DOMAIN h.domIfaces
    THEN VirshScan(Tail(names), h, result)
    ELSE VirshScan(Tail(names), h, MapIfaces(h.domIfaces[Head(names)], result, Head(names)))

\* vmEntry: the name and pid of each retained entry
vmEntries(vms) == [k \in 1..Len(vms) |-> [name |-> vms[k].name, pid |-> vms[k].pid]]

\* a locator that runs the virsh path after the midclt path whatever the latter found
VMLocatorAlwaysVirsh(h, midcltOK, virshOK) ==
    LET vms     == IF midcltOK THEN queryMidcltVMs(h) ELSE << >>
        primary == IF midcltOK /\ Len(vms) > 0 THEN MidcltScan(vms, h, EmptyMap) ELSE EmptyMap
    IN  IF ~virshOK
        THEN [calls |-> <<"midclt", "virsh">>, result |-> primary, retained |-> vmEntries(vms)]
        ELSE [calls |-> <<"midclt", "virsh">>, retained |-> vmEntries(vms),
              result |-> VirshScan(runVirshListNames(h), h, primary)]

\* the body of buildVMMapping: the tools it runs, in order, the entries the
\* midclt query retained, and the map it returns
VMLocator(h, midcltOK, virshOK) ==
    LET vms     == IF midcltOK THEN queryMidcltVMs(h) ELSE << >>
        primary == IF midcltOK /\ Len(vms) > 0 THEN MidcltScan(vms, h, EmptyMap) ELSE EmptyMap
    IN  IF DOMAIN primary # {}
        THEN [calls |-> <<"midclt">>, result |-> primary, retained |-> vmEntries(vms)]
        ELSE IF ~virshOK
        THEN [calls |-> <<"midclt", "virsh">>, result |-> primary, retained |-> vmEntries(vms)]
        ELSE [calls |-> <<"midclt", "virsh">>, retained |-> vmEntries(vms),
              result |-> VirshScan(runVirshListNames(h), h, primary)]

buildVMMapping(h, midcltOK, virshOK) == VMLocator(h, midcltOK, virshOK).result

(***************************************************************************)
(* The topology resolver: buildInterfaceInfo.                              *)
(***************************************************************************)
\* a bridgeVLAN loop that records the parent device of the sub-interface as the id
RECURSIVE BridgeVLANScanParent(_, _, _, _)
BridgeVLANScanParent(order, vlanMap, bridgeMap, bridgeVLAN) ==
    IF order = << >> THEN bridgeVLAN
    ELSE IF Head(order) \in DOMAIN bridgeMap
    THEN BridgeVLANScanParent(Tail(order), vlanMap, bridgeMap,
                              Put(bridgeVLAN, bridgeMap[Head(order)], vlanMap[Head(order)].Parent))
    ELSE BridgeVLANScanParent(Tail(order), vlanMap, bridgeMap, bridgeVLAN)

\* for iface, vi := range vlanMap { if br, ok := bridgeMap[iface]; ok { bridgeVLAN[br] = vi.ID } }
\* order lists the keys of vlanMap that have a parent bridge, in the order in which
\* this range visits them (a Go map range visits its keys in no fixed order)
RECURSIVE BridgeVLANScan(_, _, _, _)
BridgeVLANScan(order, vlanMap, bridgeMap, bridgeVLAN) ==
    IF order = << >> THEN bridgeVLAN
    ELSE IF Head(order) \in DOMAIN bridgeMap
    THEN BridgeVLANScan(Tail(order), vlanMap, bridgeMap,
                        Put(bridgeVLAN, bridgeMap[Head(order)], vlanMap[Head(order)].ID))
    ELSE BridgeVLANScan(Tail(order), vlanMap, bridgeMap, bridgeVLAN)

\* an inheritance that looks the interface itself up instead of its parent bridge
InheritVLANOwn(iface, bridgeMap, bridgeVLAN) ==
    IF Get(bridgeMap, iface) # Empty THEN Get(bridgeVLAN, iface) ELSE Empty

\* an inheritance that climbs to the master of the master when the direct
\* master has no recorded id
InheritVLANTransitive(iface, bridgeMap, bridgeVLAN) ==
    IF Get(bridgeMap, iface) = Empty THEN Empty
    ELSE IF Get(bridgeVLAN, Get(bridgeMap, iface)) # Empty
    THEN Get(bridgeVLAN, Get(bridgeMap, iface))
    ELSE Get(bridgeVLAN, Get(bridgeMap, Get(bridgeMap, iface)))

\* "Inherit VLAN from parent bridge"
InheritVLAN(iface, bridgeMap, bridgeVLAN) ==
    IF Get(bridgeMap, iface) # Empty THEN Get(bridgeVLAN, Get(bridgeMap, iface)) ELSE Empty

\* a veth case that asks the Incus map before the Docker map
VethCaseIncusFirst(info, iface, m) ==
    LET owner ==
            IF iface \in DOMAIN m.vethToIncus
            THEN [info EXCEPT !.InstanceType = "incus",
                              !.Instance = m.vethToIncus[iface],
                              !.App = m.vethToIncus[iface]]
            ELSE IF iface \in DOMAIN m.vethToContainer
            THEN [info EXCEPT !.InstanceType = "docker",
                              !.Instance = m.vethToContainer[iface].Name,
                              !.App = AppName(m.vethToContainer[iface])]
            ELSE [info EXCEPT !.InstanceType = "docker",
                              !.Instance = iface,
                              !.App = IF iface \in DOMAIN m.bridgeMap
                                         /\ m.bridgeMap[iface] \in DOMAIN m.bridgeToNetwork
                                      THEN appNameFromDockerNetwork(
                                               m.bridgeToNetwork[m.bridgeMap[iface]].Name)
                                      ELSE Empty]
    IN  [owner EXCEPT !.VLAN = InheritVLAN(iface, m.bridgeMap, m.bridgeVLAN)]

VethCase(info, iface, m) ==
    LET owner ==
            IF iface \in DOMAIN m.vethToContainer
            THEN [info EXCEPT !.InstanceType = "docker",
                              !.Instance = m.vethToContainer[iface].Name,
                              !.App = AppName(m.vethToContainer[iface])]
            ELSE IF iface \in DOMAIN m.vethToIncus
            THEN [info EXCEPT !.InstanceType = "incus",
                              !.Instance = m.vethToIncus[iface],
                              !.App = m.vethToIncus[iface]]
            ELSE [info EXCEPT !.InstanceType = "docker",
                              !.Instance = iface,
                              !.App = IF iface \in DOMAIN m.bridgeMap
                                         /\ m.bridgeMap[iface] \in DOMAIN m.bridgeToNetwork
                                      THEN appNameFromDockerNetwork(
                                               m.bridgeToNetwork[m.bridgeMap[iface]].Name)
                                      ELSE Empty]
    IN  [owner EXCEPT !.VLAN = InheritVLAN(iface, m.bridgeMap, m.bridgeVLAN)]

VnetCase(info, iface, m) ==
    [info EXCEPT !.InstanceType = "vm",
                 !.Instance = IF iface \in DOMAIN m.vnetToVM THEN m.vnetToVM[iface] ELSE iface,
                 !.App = IF iface \in DOMAIN m.vnetToVM THEN m.vnetToVM[iface] ELSE Empty,
                 !.VLAN = InheritVLAN(iface, m.bridgeMap, m.bridgeVLAN)]

\* a macvtap case that inherits the VLAN id of the parent bridge as the veth
\* and vnet cases do
MacvtapCaseInherit(info, iface, m) ==
    [info EXCEPT !.InstanceType = "macvtap",
                 !.Instance = IF iface \in DOMAIN m.vnetToVM THEN m.vnetToVM[iface] ELSE iface,
                 !.App = IF iface \in DOMAIN m.vnetToVM THEN m.vnetToVM[iface] ELSE Empty,
                 !.VLAN = InheritVLAN(iface, m.bridgeMap, m.bridgeVLAN)]

MacvtapCase(info, iface, m) ==
    [info EXCEPT !.InstanceType = "macvtap",
                 !.Instance = IF iface \in DOMAIN m.vnetToVM THEN m.vnetToVM[iface] ELSE iface,
                 !.App = IF iface \in DOMAIN m.vnetToVM THEN m.vnetToVM[iface] ELSE Empty]

\* a vlan case that takes the id from the interface name when the config has no entry
VlanCaseFromName(info, iface, m) ==
    [info EXCEPT !.InstanceType = "vlan",
                 !.Instance = iface,
                 !.App = TxtSystem,
                 !.VLAN = IF iface \in DOMAIN m.vlanMap THEN m.vlanMap[iface].ID
                          ELSE TrimPrefix(iface, TxtVlan)]

VlanCase(info, iface, m) ==
    [info EXCEPT !.InstanceType = "vlan",
                 !.Instance = iface,
                 !.App = TxtSystem,
                 !.VLAN = IF iface \in DOMAIN m.vlanMap THEN m.vlanMap[iface].ID ELSE Empty]

\* a bridge case that takes the Docker network name for every bridge in the map
BridgeCaseAnyNetwork(info, iface, m) ==
    LET b == [info EXCEPT !.InstanceType = "bridge", !.VLAN = Get(m.bridgeVLAN, iface)]
    IN  IF iface \in DOMAIN m.bridgeToNetwork
        THEN [b EXCEPT !.Instance = m.bridgeToNetwork[iface].Name,
                       !.App = appNameFromDockerNetwork(m.bridgeToNetwork[iface].Name)]
        ELSE IF HasPrefix(iface, TxtBrDash)
        THEN [b EXCEPT !.Instance = iface]
        ELSE [b EXCEPT !.Instance = iface, !.App = TxtSystem]

\* a bridge case that gives the system sentinel to a hash-named bridge without
\* a network
BridgeCaseSystemApp(info, iface, m) ==
    LET b == [info EXCEPT !.InstanceType = "bridge", !.VLAN = Get(m.bridgeVLAN, iface)]
    IN  IF HasPrefix(iface, TxtBrDash) /\ iface \in DOMAIN m.bridgeToNetwork
        THEN [b EXCEPT !.Instance = m.bridgeToNetwork[iface].Name,
                       !.App = appNameFromDockerNetwork(m.bridgeToNetwork[iface].Name)]
        ELSE [b EXCEPT !.Instance = iface, !.App = TxtSystem]

BridgeCase(info, iface, m) ==
    LET b == [info EXCEPT !.InstanceType = "bridge", !.VLAN = Get(m.bridgeVLAN, iface)]
    IN  IF HasPrefix(iface, TxtBrDash)
        THEN IF iface \in DOMAIN m.bridgeToNetwork
             THEN [b EXCEPT !.Instance = m.bridgeToNetwork[iface].Name,
                            !.App = appNameFromDockerNetwork(m.bridgeToNetwork[iface].Name)]
             ELSE [b EXCEPT !.Instance = iface]
        ELSE [b EXCEPT !.Instance = iface, !.App = TxtSystem]

\* a fallback that sets no type when there is no driver link
DefaultCaseNoType(info, iface, m, h) ==
    LET d == [info EXCEPT !.InstanceType = IF iface \in h.driver THEN "physical" ELSE "",
                          !.Instance = iface,
                          !.App = TxtSystem]
    IN  IF iface \in DOMAIN m.vlanMap
        THEN [d EXCEPT !.InstanceType = "vlan", !.VLAN = m.vlanMap[iface].ID]
        ELSE d

DefaultCase(info, iface, m, h) ==
    LET d == [info EXCEPT !.InstanceType = IF iface \in h.driver THEN "physical" ELSE "unknown",
                          !.Instance = iface,
                          !.App = TxtSystem]
    IN  IF iface \in DOMAIN m.vlanMap
        THEN [d EXCEPT !.InstanceType = "vlan", !.VLAN = m.vlanMap[iface].ID]
        ELSE d

\* a switch after which the VLAN config re-check is applied to every interface
ClassifyRecheckAll(iface, m, h) ==
    LET info == [Name |-> iface, Instance |-> Empty, InstanceType |-> "", App |-> Empty,
                 Bridge |-> Get(m.bridgeMap, iface), VLAN |-> Empty,
                 State |-> normalizeState(m.stateMap[iface])]
        r == IF iface = IfLo
             THEN [info EXCEPT !.InstanceType = "loopback", !.Instance = TxtLoopback,
                               !.App = TxtSystem]
             ELSE IF HasPrefix(iface, TxtVeth) THEN VethCase(info, iface, m)
             ELSE IF HasPrefix(iface, TxtVnet) THEN VnetCase(info, iface, m)
             ELSE IF HasPrefix(iface, TxtMacvtap) \/ HasPrefix(iface, TxtMacvlan)
             THEN MacvtapCase(info, iface, m)
             ELSE IF HasPrefix(iface, TxtVlan) THEN VlanCase(info, iface, m)
             ELSE IF HasPrefix(iface, TxtBrDash) \/ HasPrefix(iface, TxtBr)
                     \/ HasPrefix(iface, TxtDocker) \/ HasPrefix(iface, TxtIncus)
             THEN BridgeCase(info, iface, m)
             ELSE DefaultCase(info, iface, m, h)
    IN  IF iface \in DOMAIN m.vlanMap
        THEN [r EXCEPT !.InstanceType = "vlan", !.VLAN = m.vlanMap[iface].ID]
        ELSE r

\* the switch of buildInterfaceInfo, first matching case
Classify(iface, m, h) ==
    LET info == [Name |-> iface, Instance |-> Empty, InstanceType |-> "", App |-> Empty,
                 Bridge |-> Get(m.bridgeMap, iface), VLAN |-> Empty,
                 State |-> normalizeState(m.stateMap[iface])]
    IN  IF iface = IfLo
        THEN [info EXCEPT !.InstanceType = "loopback", !.Instance = TxtLoopback,
                          !.App = TxtSystem]
        ELSE IF HasPrefix(iface, TxtVeth) THEN VethCase(info, iface, m)
        ELSE IF HasPrefix(iface, TxtVnet) THEN VnetCase(info, iface, m)
        ELSE IF HasPrefix(iface, TxtMacvtap) \/ HasPrefix(iface, TxtMacvlan)
        THEN MacvtapCase(info, iface, m)
        ELSE IF HasPrefix(iface, TxtVlan) THEN VlanCase(info, iface, m)
        ELSE IF HasPrefix(iface, TxtBrDash) \/ HasPrefix(iface, TxtBr)
                \/ HasPrefix(iface, TxtDocker) \/ HasPrefix(iface, TxtIncus)
        THEN BridgeCase(info, iface, m)
        ELSE DefaultCase(info, iface, m, h)

\* the maps buildInterfaceInfo builds before it classifies (src lines 227-258)
SourceMaps(stats, h, in, order) ==
    LET bridgeMap  == buildBridgeMap(stats, h)
        ifindexMap == buildIfindexMap(stats, h)
        dock       == fetchDockerData(ifindexMap, h, in.docker)
        vlanMap    == buildVLANMap(h, in.vlan)
    IN  [stateMap        |-> [i \in DOMAIN stats |-> h.operstate[i]],
         bridgeMap       |-> bridgeMap,
         ifindexMap      |-> ifindexMap,
         vethToContainer |-> dock.vethMap,
         bridgeToNetwork |-> dock.netMap,
         vethToIncus     |-> buildIncusMapping(ifindexMap, h, in.cgroup),
         vnetToVM        |-> buildVMMapping(h, in.midclt, in.virsh),
         vlanMap         |-> vlanMap,
         bridgeVLAN      |-> BridgeVLANScan(order, vlanMap, bridgeMap, EmptyMap)]

\* a resolver that leaves out the interfaces whose operstate cannot be read
buildInterfaceInfoSkipUnreadable(stats, h, in, order) ==
    CHOOSE r \in {[maps |-> m,
                   result |-> [iface \in {x \in DOMAIN stats : h.operstate[x] # Empty} |->
                                  Classify(iface, m, h)]] :
                     m \in {SourceMaps(stats, h, in, order)}} : TRUE

\* buildInterfaceInfo: the maps it builds (its local variables) and the result it returns
buildInterfaceInfo(stats, h, in, order) ==
    CHOOSE r \in {[maps |-> m, result |-> [iface \in DOMAIN stats |-> Classify(iface, m, h)]] :
                     m \in {SourceMaps(stats, h, in, order)}} : TRUE

(***************************************************************************)
(* NetworkCollector.Collect: one pass.                                     *)
(***************************************************************************)
\* the eight descriptors and the counter each one reports
MetricField ==
    [d \in {"net_interface_rx_bytes_total", "net_interface_tx_bytes_total",
            "net_interface_rx_packets_total", "net_interface_tx_packets_total",
            "net_interface_rx_errors_total", "net_interface_tx_errors_total",
            "net_interface_rx_dropped_total", "net_interface_tx_dropped_total"} |->
        CASE d = "net_interface_rx_bytes_total"   -> "RxBytes"
          [] d = "net_interface_tx_bytes_total"   -> "TxBytes"
          [] d = "net_interface_rx_packets_total" -> "RxPackets"
          [] d = "net_interface_tx_packets_total" -> "TxPackets"
          [] d = "net_interface_rx_errors_total"  -> "RxErrors"
          [] d = "net_interface_tx_errors_total"  -> "TxErrors"
          [] d = "net_interface_rx_dropped_total" -> "RxDropped"
          [] d = "net_interface_tx_dropped_total" -> "TxDropped"]

Labels(info) ==
    <<info.Name, info.Instance, info.InstanceType, info.App, info.Bridge, info.VLAN, info.State>>

\* the loop of Collect over stats: for each interface that has a record, the label
\* slice is built once and one metric per descriptor is sent with it
Emit(stats, infoMap) ==
    {[labels |-> Labels(infoMap[iface]),
      values |-> [d \in DOMAIN MetricField |-> stats[iface][MetricField[d]]]] :
        iface \in (DOMAIN stats) \cap (DOMAIN infoMap)}

\* The metrics one by one.  Here a uint64 is written in binary, most significant
\* bit first and without leading zeros (<<0>> is zero), so that the conversion
\* to float64 is computed on the whole range of the type.
Zeros(n) == [i \in 1..n |-> 0]

\* b + 1
BitsInc(b) ==
    IF \A i \in 1..Len(b) : b[i] = 1 THEN <<1>> \o Zeros(Len(b))
    ELSE LET k == CHOOSE i \in 1..Len(b) : b[i] = 0 /\ \A j \in (i + 1)..Len(b) : b[j] = 1
         IN  SubSeq(b, 1, k - 1) \o <<1>> \o Zeros(Len(b) - k)

\* float64(v) for a uint64 v: exact up to 53 significant bits, beyond that the
\* nearest value with 53 significant bits, ties to the even one
Float64(b) ==
    IF Len(b) <= 53 THEN b
    ELSE LET m      == SubSeq(b, 1, 53)
             sticky == \E i \in 55..Len(b) : b[i] = 1
             up     == b[54] = 1 /\ (sticky \/ m[53] = 1)
         IN  (IF up THEN BitsInc(m) ELSE m) \o Zeros(Len(b) - 53)

\* the descriptors in the order Collect sends them for one interface
DescOrder ==
    <<"net_interface_rx_bytes_total", "net_interface_tx_bytes_total",
      "net_interface_rx_packets_total", "net_interface_tx_packets_total",
      "net_interface_rx_errors_total", "net_interface_tx_errors_total",
      "net_interface_rx_dropped_total", "net_interface_tx_dropped_total">>

\* an emission whose tx bytes metric reports the rx bytes counter
ConstMetricsRxTwice(st, info) ==
    [k \in 1..Len(DescOrder) |->
        [desc |-> DescOrder[k], labels |-> Labels(info),
         value |-> Float64(st[IF k = 2 THEN "RxBytes" ELSE MetricField[DescOrder[k]]])]]

\* the eight MustNewConstMetric sends of one iteration of the loop of Collect
ConstMetrics(st, info) ==
    [k \in 1..Len(DescOrder) |->
        [desc |-> DescOrder[k], labels |-> Labels(info),
         value |-> Float64(st[MetricField[DescOrder[k]]])]]

\* the loop of Collect over stats in the range order given, as the sequence of
\* metrics sent
RECURSIVE EmitMetrics(_, _, _)
EmitMetrics(order, stats, infoMap) ==
    IF order = << >> THEN << >>
    ELSE IF Head(order) \notin DOMAIN infoMap THEN EmitMetrics(Tail(order), stats, infoMap)
    ELSE ConstMetrics(stats[Head(order)], infoMap[Head(order)])
         \o EmitMetrics(Tail(order), stats, infoMap)

ResolverSources == {"sysfs", "docker", "cgroup", "vmtools", "vlanconfig"}

NoMaps ==
    [stateMap |-> EmptyMap, bridgeMap |-> EmptyMap, ifindexMap |-> EmptyMap,
     vethToContainer |-> EmptyMap, bridgeToNetwork |-> EmptyMap, vethToIncus |-> EmptyMap,
     vnetToVM |-> EmptyMap, vlanMap |-> EmptyMap, bridgeVLAN |-> EmptyMap]

\* the record of one pass: what it found of its sources (in), whether it aborted,
\* the sources it read, the maps the resolver built, the resolver's output and the
\* metrics sent to the channel
Collect(h, in, order) ==
    LET r == readProcNetDev(h, in.proc)
    IN  IF r.err
        THEN [in |-> in, err |-> TRUE, consulted |-> {"procnetdev"},
              maps |-> NoMaps, out |-> EmptyMap, emitted |-> {}]
        ELSE CHOOSE c \in {[in |-> in, err |-> FALSE,
                            consulted |-> {"procnetdev"} \cup ResolverSources,
                            maps |-> b.maps, out |-> b.result,
                            emitted |-> Emit(r.stats, b.result)] :
                               b \in {buildInterfaceInfo(r.stats, h, in, order)}} : TRUE

(***************************************************************************)
(* State machine: the environment changes the host, scrapes run passes.    *)
(* passes remembers up to two passes made on the present host (what each   *)
(* found of its sources, and what it returned); channel holds the metrics  *)
(* the latest scrape sent.                                                 *)
(***************************************************************************)
DockerUp   == [available |-> TRUE,  list |-> TRUE, nets |-> TRUE]
DockerDown == [available |-> FALSE, list |-> TRUE, nets |-> TRUE]

Sources == {"docker", "cgroup", "vmtools", "vlanconfig"}

\* what a pass finds when the sources in down are unreachable
InputWith(down) ==
    [proc   |-> TRUE,
     docker |-> IF "docker" \in down THEN DockerDown ELSE DockerUp,
     cgroup |-> "cgroup" \notin down,
     midclt |-> "vmtools" \notin down,
     virsh  |-> "vmtools" \notin down,
     vlan   |-> "vlanconfig" \notin down]

\* the counter file cannot be read: no other source is looked at
InputProcFail == [InputWith({}) EXCEPT !.proc = FALSE]

PassInputs ==
    {InputWith(down) : down \in {D \in SUBSET Sources : Cardinality(D) <= MaxSourcesDown}}
    \cup {InputProcFail}

\* the keys of vlanMap for which the range of lines 254-258 writes bridgeVLAN
VLANWriters(h, in) ==
    LET vlanMap == buildVLANMap(h, in.vlan)
    IN  IF in.proc
        THEN {k \in DOMAIN vlanMap : k \in DOMAIN buildBridgeMap(h.netdev, h)}
        ELSE {}

Init ==
    /\ host = BaseHost
    /\ envChanges = 0
    /\ passes = << >>
    /\ channel = {}
    /\ arg = << >>
    /\ ret = << >>
    /\ inFlight = << >>

\* a scrape: Collect runs to completion on the present host
Scrape ==
    /\ Len(passes) < 2
    /\ \E in \in PassInputs :
        \E order \in Orders(VLANWriters(host, in)) :
            \E c \in {Collect(host, in, order)} :
                /\ passes' = Append(passes, [in |-> c.in, err |-> c.err,
                                             consulted |-> c.consulted,
                                             maps |-> c.maps, out |-> c.out])
                /\ channel' = c.emitted
                /\ UNCHANGED <<host, envChanges, arg, ret, inFlight>>

\* the older of the two remembered passes is forgotten
Forget ==
    /\ Len(passes) = 2
    /\ passes' = Tail(passes)
    /\ UNCHANGED <<host, envChanges, channel, arg, ret, inFlight>>

EnvStep(h) ==
    /\ envChanges < MaxEnvChanges
    /\ h # host
    /\ host' = h
    /\ envChanges' = envChanges + 1
    /\ passes' = << >>
    /\ channel' = {}
    /\ UNCHANGED <<arg, ret, inFlight>>

RemoveAt(s, k) == SubSeq(s, 1, k - 1) \o SubSeq(s, k + 1, Len(s))

\* ip link set <i> master br0 / nomaster
LinkSetMaster ==
    \E i \in {IfEno1, IfVlan7, IfVlan8, IfVeth1, IfVeth2, IfVnet0, IfMacvtap0, IfBrAb},
       b \in {Empty, IfBr0} :
        /\ i \in DOMAIN host.netdev
        /\ EnvStep([host EXCEPT !.master[i] = b])

\* an interface is missing from the counter file
LinkDel ==
    \E i \in {IfBr0, IfVlan7, IfVeth2} :
        /\ i \in DOMAIN host.netdev
        /\ EnvStep([host EXCEPT
                       !.netdev = [x \in (DOMAIN host.netdev) \ {i} |-> host.netdev[x]]])

\* a line is added to the VLAN config table
VlanAdd ==
    \E e \in {<<IfVlan8, Vid7, IfEno1>>, <<IfEno1, Vid8, IfBond0>>, <<IfBrAb, Vid8, IfEno1>>} :
        /\ Len(host.vlanConfig) < 6
        /\ EnvStep([host EXCEPT !.vlanConfig = Append(@, VlanLine(e[1], e[2], e[3]))])

\* a line leaves the VLAN config table
VlanDel ==
    \E k \in 3..Len(host.vlanConfig) :
        EnvStep([host EXCEPT !.vlanConfig = RemoveAt(@, k)])

\* a container stops
ContainerStop ==
    \E k \in 1..Len(host.containers) :
        EnvStep([host EXCEPT !.containers = RemoveAt(@, k)])

\* the interfaces of a process's network namespace change
NetnsChange ==
    \E e \in {<<10, << >>>>, <<11, <<9>>>>, <<20, << >>>>, <<20, <<9, 10>>>>} :
        /\ e[1] \in DOMAIN host.nsIflinks
        /\ EnvStep([host EXCEPT !.nsIflinks[e[1]] = e[2]])

NetworkRemove ==
    \E k \in 1..Len(host.networks) :
        EnvStep([host EXCEPT !.networks = RemoveAt(@, k)])

NetworkCreate ==
    \E n \in {NetworkPlain, NetworkMedia, NetworkHost} :
        /\ Len(host.networks) < 4
        /\ EnvStep([host EXCEPT !.networks = Append(@, n)])

\* a process exits
ProcExit ==
    \E k \in 2..Len(host.procs) :
        EnvStep([host EXCEPT !.procs = RemoveAt(@, k)])

VmStop ==
    \E k \in 1..Len(host.vms) :
        /\ host.vms[k].state = "RUNNING"
        /\ EnvStep([host EXCEPT !.vms[k].state = "STOPPED", !.vms[k].pid = 0])

Next ==
    \/ Scrape
    \/ Forget
    \/ LinkSetMaster
    \/ LinkDel
    \/ VlanAdd
    \/ VlanDel
    \/ ContainerStop
    \/ NetnsChange
    \/ NetworkRemove
    \/ NetworkCreate
    \/ ProcExit
    \/ VmStop

Spec == Init /\ [][Next]_vars

(***************************************************************************)
(* Specifications of single functions: Init draws the input, one action    *)
(* calls the function on it.  The pass variables keep their initial value. *)
(***************************************************************************)
Idle ==
    /\ host = BaseHost
    /\ envChanges = 0
    /\ passes = << >>
    /\ channel = {}
    /\ inFlight = << >>

\* sequences over S of length at most n
SeqUpTo(S, n) == UNION {[1..k -> S] : k \in 0..n}

\* number of vm.query entries
MaxVMs == 2

VmName2 == <<"n", "a", "s">>

VMEntries ==
    {[name |-> VmName,  state |-> "RUNNING", pid |-> 30],
     [name |-> VmName,  state |-> "STOPPED", pid |-> 0],
     [name |-> VmName2, state |-> "RUNNING", pid |-> 31],
     [name |-> VmName2, state |-> "RUNNING", pid |-> 0],
     [name |-> VmName,  state |-> "SUSPENDED", pid |-> 30],
     [name |-> VmName2, state |-> "running", pid |-> 31]}

VMInputs ==
    [vms        : SeqUpTo(VMEntries, MaxVMs),
     qemuIfaces : {(30 :> a) @@ (31 :> b) :
                      a \in {<< >>, <<IfVnet0>>, <<IfVnet0, IfMacvtap0>>},
                      b \in {<< >>, <<IfMacvtap0>>}},
     domIfaces  : {(VmName :> <<IfVnet0>>) @@ (VmName2 :> <<IfMacvtap0>>),
                   (VmName :> <<IfVnet0>>),
                   (VmName :> <<IfVnet0, IfMacvtap0>>) @@ (VmName2 :> << >>)},
     midclt     : BOOLEAN,
     virsh      : BOOLEAN]

HostWithVMs(a) ==
    [BaseHost EXCEPT !.vms = a.vms, !.qemuIfaces = a.qemuIfaces, !.domIfaces = a.domIfaces]

InitVM ==
    /\ Idle
    /\ arg \in VMInputs
    /\ ret = << >>

CallVMLocator ==
    /\ ret = << >>
    /\ ret' = <<VMLocator(HostWithVMs(arg), arg.midclt, arg.virsh)>>
    /\ UNCHANGED <<passVars, arg>>

SpecVM == InitVM /\ [][CallVMLocator]_vars

\* number of lines of a cgroup file
MaxCgroupLines == 2

TxtCgroupV2  == <<"0", ":", ":", "/">>
TxtUserSlice == <<"/", "u", "s", "e", "r", ".", "s", "l", "i", "c", "e">>
LxcName2     == <<"c", "2">>

\* the lines a cgroup file is made of: one outside any LXC payload, and
\* 0::/lxc.payload.<name><tail> for each name and tail
CgroupLines ==
    {TxtCgroupV2 \o Tail(TxtInitScope)}
    \cup {TxtCgroupV2 \o TxtLxcPayload \o name \o tail :
             name \in {Empty, LxcName, LxcName2},
             tail \in {Empty, TxtInitScope, TxtUserSlice, TxtInitScope \o <<"x">>,
                       <<"/", "a">> \o TxtInitScope}}

\* the text of a file whose lines are ls, each ended by a newline
RECURSIVE FileText(_)
FileText(ls) ==
    IF ls = << >> THEN Empty ELSE Head(ls) \o <<"\n">> \o FileText(Tail(ls))

InitLXC ==
    /\ Idle
    /\ arg \in SeqUpTo(CgroupLines, MaxCgroupLines)
    /\ ret = << >>

CallParseLXCCgroup ==
    /\ ret = << >>
    /\ ret' = <<parseLXCCgroup(FileText(arg))>>
    /\ UNCHANGED <<passVars, arg>>

SpecLXC == InitLXC /\ [][CallParseLXCCgroup]_vars

\* number of numeric /proc entries scanned
MaxProcs == 3

\* a process: the LXC container it belongs to, whether it is in the container's
\* init scope, and the iflink values seen in its network namespace
ProcKinds ==
    [name : {LxcName, LxcName2}, init : BOOLEAN, links : {<< >>, <<9>>, <<10>>}]

ProcCgroup(k) ==
    TxtCgroupV2 \o TxtLxcPayload \o k.name \o (IF k.init THEN TxtInitScope ELSE TxtUserSlice)

\* the host with the processes ps (pids 20, 21, ... in directory order) after pid 1
HostWithProcs(ps) ==
    [BaseHost EXCEPT
        !.procs = <<[pid |-> 1, cgroup |-> Empty]>>
                  \o [k \in 1..Len(ps) |-> [pid |-> 19 + k,
                                            cgroup |-> ProcCgroup(ps[k]) \o <<"\n">>]],
        !.nsIflinks = [pid \in {19 + k : k \in 1..Len(ps)} |-> ps[pid - 19].links]]

InitIncus ==
    /\ Idle
    /\ arg \in SeqUpTo(ProcKinds, MaxProcs)
    /\ ret = << >>

CallBuildIncusMapping ==
    /\ ret = << >>
    /\ ret' = <<buildIncusMapping(buildIfindexMap(BaseHost.netdev, BaseHost),
                                  HostWithProcs(arg), TRUE)>>
    /\ UNCHANGED <<passVars, arg>>

SpecIncus == InitIncus /\ [][CallBuildIncusMapping]_vars

\* number of pieces a container name is made of
MaxNamePieces == 4

NamePieces == {TxtIxDash, <<"-">>, <<"1">>, <<"a">>}

RECURSIVE Concat(_)
Concat(ps) == IF ps = << >> THEN Empty ELSE Head(ps) \o Concat(Tail(ps))

LabelSets ==
    {NoLabels,
     ComposeProject :> ProjGraf,
     ComposeProject :> <<"g", "-", "2">>,
     ComposeProject :> Empty,
     "com.docker.compose.service" :> ProjGraf}

ContainerInputs ==
    {[ID |-> "c", Name |-> Concat(ps), PID |-> 10, Labels |-> ls] :
        ps \in SeqUpTo(NamePieces, MaxNamePieces), ls \in LabelSets}

InitAppName ==
    /\ Idle
    /\ arg \in ContainerInputs
    /\ ret = << >>

CallAppName ==
    /\ ret = << >>
    /\ ret' = <<AppName(arg)>>
    /\ UNCHANGED <<passVars, arg>>

SpecAppName == InitAppName /\ [][CallAppName]_vars

\* number of containers the list call returns
MaxListed == 3

ContainerIDs == {"c1", "c2", "c3"}

\* the inspect response of a container
RawOf(id) ==
    [ID |-> id,
     Name |-> <<"/">> \o (IF id = "c1" THEN CtrGrafName ELSE IF id = "c2" THEN CtrWebName
                          ELSE <<"d", "b">>),
     PID |-> IF id = "c1" THEN 10 ELSE IF id = "c2" THEN 11 ELSE 12,
     Labels |-> IF id = "c1" THEN ComposeProject :> ProjGraf ELSE NoLabels]

ListInputs ==
    [listOK  : BOOLEAN,
     ids     : SeqUpTo(ContainerIDs, MaxListed),
     inspect : {[id \in ContainerIDs |-> IF id \in gone THEN << >> ELSE <<RawOf(id)>>] :
                   gone \in SUBSET ContainerIDs}]

InitList ==
    /\ Idle
    /\ arg \in ListInputs
    /\ ret = << >>

CallListContainers ==
    /\ ret = << >>
    /\ ret' = <<ListContainers(arg.listOK, arg.ids, arg.inspect)>>
    /\ UNCHANGED <<passVars, arg>>

SpecList == InitList /\ [][CallListContainers]_vars

\* number of counter lines after the two header lines
MaxCounterLines == 2

\* the fields base+1 .. base+16 of a line the kernel writes
KernelFields(base) == [k \in 1..16 |-> Itoa(base + k)]

\* a line of the file: name, colon or not, a space after it or not, fields
NetDevLine(name, colon, gap, fields) ==
    [name |-> name, colon |-> colon, gap |-> gap, fields |-> fields]

NetDevLines ==
    {NetDevLine(IfEno1, TRUE, TRUE, KernelFields(0)),
     NetDevLine(IfEno1, TRUE, TRUE, [KernelFields(0) EXCEPT ![5] = <<"9">>, ![16] = <<"9">>]),
     NetDevLine(IfLo, TRUE, FALSE, [KernelFields(100) EXCEPT ![3] = <<"0", "0", "7">>]),
     NetDevLine(IfEno1, FALSE, TRUE, KernelFields(200)),
     NetDevLine(IfBond0, TRUE, TRUE, SubSeq(KernelFields(200), 1, 15)),
     NetDevLine(IfBond0, TRUE, TRUE, [KernelFields(200) EXCEPT ![6] = <<"x">>]),
     NetDevLine(IfBond0, TRUE, TRUE, [KernelFields(200) EXCEPT ![1] = <<"-", "1">>]),
     NetDevLine(IfBond0, TRUE, TRUE, [KernelFields(200) EXCEPT ![2] = <<"+", "7">>]),
     NetDevLine(IfBond0, TRUE, TRUE, Append(KernelFields(200), <<"x">>)),
     NetDevLine(IfBr0, TRUE, TRUE, [KernelFields(200) EXCEPT ![1] = MaxUint64]),
     NetDevLine(IfBr0, TRUE, TRUE,
                [KernelFields(200) EXCEPT ![9] = SubSeq(MaxUint64, 1, 19) \o <<"6">>]),
     NetDevLine(Empty, FALSE, FALSE, << >>)}

RECURSIVE JoinFields(_)
JoinFields(fs) == IF fs = << >> THEN Empty ELSE <<" ">> \o Head(fs) \o JoinFields(Tail(fs))

\* the text of a line: "  <name>: <f1> <f2> ..." as the kernel pads it
LineText(d) ==
    LET fs == JoinFields(d.fields)
    IN  (IF d.name = Empty THEN Empty ELSE <<" ", " ">> \o d.name)
        \o (IF d.colon THEN <<":">> ELSE Empty)
        \o (IF d.gap \/ fs = Empty THEN fs ELSE Tail(fs))

\* the two header lines; in the second variant the second one has the shape of
\* a counter line
NetDevHeaders ==
    {<<<<"I", "n", "t", "e", "r", "-", "|">>, <<" ", "f", "a", "c", "e", " ", "|", "b", "y", "t", "e", "s">>>>,
     <<<<"I", "n", "t", "e", "r", "-", "|">>, LineText(NetDevLine(IfVlan7, TRUE, TRUE, KernelFields(0)))>>}

NetDevInputs ==
    [open : BOOLEAN, header : NetDevHeaders, lines : SeqUpTo(NetDevLines, MaxCounterLines)]

\* the text of the file of input a
NetDevText(a) ==
    FileText(a.header \o [k \in 1..Len(a.lines) |-> LineText(a.lines[k])])

InitNetDev ==
    /\ Idle
    /\ arg \in NetDevInputs
    /\ ret = << >>

CallReadProcNetDev ==
    /\ ret = << >>
    /\ ret' = <<readProcNetDevText(arg.open, NetDevText(arg))>>
    /\ UNCHANGED <<passVars, arg>>

SpecNetDev == InitNetDev /\ [][CallReadProcNetDev]_vars

\* number of lines of the VLAN config file
MaxVlanLines == 2

\* the columns a line of the VLAN config file is made of
VlanColumns ==
    {<<TxtVLANHeader \o <<" ", "D", "e", "v">>, TxtVLANHeader \o <<" ", "I", "D">>>>,
     <<TxtNameType \o <<" ", "R", "A", "W">>>>,
     <<Empty>>,
     <<IfVlan7, Vid7, IfEno1>>,
     <<IfVlan7, Vid8, IfBond0>>,
     <<IfEno1, Vid8>>,
     <<Empty, Vid7, IfEno1>>,
     <<IfVlan8, Empty, IfEno1>>,
     <<IfVlan8, Vid8, Empty>>,
     <<TxtVLANHeader \o <<"9">>, <<"9">>, IfEno1>>,
     <<IfBond0, Vid7, IfEno1, <<"x">>>>}

\* the text of a line: its columns, padded as the kernel pads them, between pipes
RECURSIVE VlanText(_)
VlanText(cols) ==
    IF Len(cols) = 1 THEN Head(cols)
    ELSE Head(cols) \o <<" ", " ", "|", " ">> \o VlanText(Tail(cols))

\* the host whose VLAN config file has the lines of columns cs
HostWithVlans(cs) ==
    [BaseHost EXCEPT !.vlanConfig = [k \in 1..Len(cs) |-> VlanText(cs[k])]]

InitVlan ==
    /\ Idle
    /\ arg \in [present : BOOLEAN, lines : SeqUpTo(VlanColumns, MaxVlanLines)]
    /\ ret = << >>

\* a pass on the host whose VLAN config file is arg
CallCollectVlan ==
    /\ ret = << >>
    /\ \E in \in {[InputWith({}) EXCEPT !.vlan = arg.present]} :
          \E order \in Orders(VLANWriters(HostWithVlans(arg.lines), in)) :
             ret' = <<Collect(HostWithVlans(arg.lines), in, order)>>
    /\ UNCHANGED <<passVars, arg>>

SpecVlan == InitVlan /\ [][CallCollectVlan]_vars

\* number of interfaces in the counter snapshot of the emission
MaxEmitted == 2

\* counter values: 0, 5, 2^53, 2^53 + 1, 2^53 + 3 and 2^64 - 1
CounterValues ==
    {<<0>>, <<1, 0, 1>>, <<1>> \o Zeros(53), <<1>> \o Zeros(52) \o <<1>>,
     <<1>> \o Zeros(51) \o <<1, 1>>, [i \in 1..64 |-> 1]}

\* the counters of an interface whose rx bytes counter is v and whose tx
\* packets counter is w
CountersWith(v, w) ==
    [RxBytes |-> v, RxPackets |-> <<1>>, RxErrors |-> <<1, 0>>, RxDropped |-> <<1, 1>>,
     TxBytes |-> <<1, 0, 0>>, TxPackets |-> w, TxErrors |-> <<1, 1, 0>>,
     TxDropped |-> <<1, 1, 1>>]

EmitInputs ==
    [ifaces : {I \in SUBSET {IfLo, IfEno1, IfVeth1, IfBr0} : Cardinality(I) <= MaxEmitted},
     v : CounterValues, w : {<<1, 0, 1>>, <<1>> \o Zeros(52) \o <<1>>},
     docker : {DockerUp, DockerDown}]

\* the snapshot of input a
EmitStats(a) == [i \in a.ifaces |-> CountersWith(IF i = IfLo THEN <<0>> ELSE a.v, a.w)]

InitEmit ==
    /\ Idle
    /\ arg \in EmitInputs
    /\ ret = << >>

\* a successful pass on the snapshot of arg: the resolver, then the emission
\* loop in one of the orders the range over stats can take
CallEmit ==
    /\ ret = << >>
    /\ \E in \in {[InputWith({}) EXCEPT !.docker = arg.docker]} :
          \E b \in {buildInterfaceInfo(EmitStats(arg), BaseHost, in, << >>)} :
             \E order \in Orders(arg.ifaces) :
                ret' = <<[infoMap |-> b.result,
                          sent |-> EmitMetrics(order, EmitStats(arg), b.result)]>>
    /\ UNCHANGED <<passVars, arg>>

SpecEmit == InitEmit /\ [][CallEmit]_vars

\* number of containers, and of networks, that Docker lists
MaxDockerListed == 2

\* a container that is not running, and one whose inspect reports a negative pid
CtrStopped == [ID |-> "c3", Name |-> CtrWebName, PID |-> 0, Labels |-> NoLabels]
CtrNoPid   == [ID |-> "c4", Name |-> CtrWebName, PID |-> -1, Labels |-> NoLabels]

\* what the three Docker calls answer, and what the directories 0 and -1 of
\* ProcPath hold: nothing, or a namespace whose interface is linked to veth2
DockerInputs ==
    [docker     : [available : BOOLEAN, list : BOOLEAN, nets : BOOLEAN],
     containers : SeqUpTo({CtrGraf, CtrStopped, CtrNoPid}, MaxDockerListed),
     networks   : SeqUpTo({NetworkGraf, NetworkPlain, NetworkHost}, MaxDockerListed),
     ns0        : {<< >>, <<10>>}]

HostWithDocker(a) ==
    [BaseHost EXCEPT !.containers = a.containers,
                     !.networks   = a.networks,
                     !.nsIflinks  = (0 :> a.ns0) @@ (-1 :> a.ns0) @@ @]

InitDocker ==
    /\ Idle
    /\ arg \in DockerInputs
    /\ ret = << >>

CallFetchDockerData ==
    /\ ret = << >>
    /\ \E h \in {HostWithDocker(arg)} :
          ret' = <<fetchDockerData(buildIfindexMap(h.netdev, h), h, arg.docker)>>
    /\ UNCHANGED <<passVars, arg>>

SpecDocker == InitDocker /\ [][CallFetchDockerData]_vars

IfMacvlan1 == <<"m", "a", "c", "v", "l", "a", "n", "1">>

\* the masters an interface is given in the hosts of the resolver's
\* specification
MemberMasters == {Empty, IfBr0, IfBrAb}

\* the base host with a macvlan interface, the masters of a for macvtap0,
\* macvlan1, vnet0 (and veth2), vlan7 and the bridge br-ab, and, when a.own
\* holds, an entry of macvlan1 in the VLAN config
HostWithMembers(a) ==
    [BaseHost EXCEPT
        !.netdev    = (IfMacvlan1 :> Counters(13)) @@ @,
        !.ifindex   = (IfMacvlan1 :> 13) @@ @,
        !.operstate = (IfMacvlan1 :> TxtUp) @@ @,
        !.master    = (IfMacvlan1 :> a.ml) @@ (IfMacvtap0 :> a.mt) @@ (IfVnet0 :> a.vn)
                      @@ (IfVeth2 :> a.vn) @@ (IfVlan7 :> a.vl) @@ (IfBrAb :> a.bb) @@ @,
        !.vlanConfig = IF a.own THEN Append(@, VlanLine(IfMacvlan1, Vid8, IfEno1)) ELSE @]

InitMembers ==
    /\ Idle
    /\ arg \in [mt : MemberMasters, ml : MemberMasters, vn : MemberMasters,
                vl : MemberMasters, bb : {Empty, IfBr0}, own : BOOLEAN]
    /\ ret = << >>

\* the resolver on the host of arg, every source available
CallBuildInterfaceInfo ==
    /\ ret = << >>
    /\ \E h \in {HostWithMembers(arg)} :
          \E order \in Orders(VLANWriters(h, InputWith({}))) :
             ret' = <<buildInterfaceInfo(h.netdev, h, InputWith({}), order)>>
    /\ UNCHANGED <<passVars, arg>>

SpecMembers == InitMembers /\ [][CallBuildInterfaceInfo]_vars

\* number of passes that run concurrently
MaxConcurrent == 2

\* the fields of the collector that a pass reads (the descriptors are MetricField)
CollectorFields == [opts |-> [ProcPath |-> "/proc", RootfsPath |-> "/"],
                    dockerSocket |-> "/var/run/docker.sock"]

\* the frame of a pass that has not started: its position and its local variables
NewFrame ==
    [pc |-> "start", err |-> FALSE, stats |-> EmptyMap, maps |-> NoMaps,
     infoMap |-> EmptyMap, sent |-> {}]

\* the host with vlan8 enslaved to br0 as well: br0 has two VLAN members
HostTwoVlans == [BaseHost EXCEPT !.master[IfVlan8] = IfBr0]

InitConc ==
    /\ host \in {BaseHost, HostTwoVlans}
    /\ envChanges = 0
    /\ passes = << >>
    /\ channel = {}
    /\ arg \in PassInputs
    /\ ret = << >>
    /\ inFlight = [collector |-> CollectorFields,
                  frames |-> [p \in 1..MaxConcurrent |-> NewFrame]]

\* a step of pass p: its frame becomes f, nothing else changes
StepTo(p, f) ==
    /\ inFlight' = [inFlight EXCEPT !.frames[p] = f]
    /\ UNCHANGED <<host, envChanges, passes, channel, arg, ret>>

\* a reading of the infoMap that goes to the map of the latest pass
infoMapLatest(r, p) == r.frames[MaxConcurrent].infoMap

\* infoMap as Collect reads it in its emission loop: a local variable of the pass
infoMapOf(r, p) == r.frames[p].infoMap

\* stats, err := c.readProcNetDev(), and the return on error
PassRead(p) ==
    /\ inFlight.frames[p].pc = "start"
    /\ \E r \in {readProcNetDev(host, arg.proc)} :
          StepTo(p, [inFlight.frames[p] EXCEPT !.pc = IF r.err THEN "done" ELSE "read",
                                             !.err = r.err, !.stats = r.stats])

\* the first part of buildInterfaceInfo: the source maps, all local
PassBuildMaps(p) ==
    /\ inFlight.frames[p].pc = "read"
    /\ \E order \in Orders(VLANWriters(host, arg)) :
          \E m \in {SourceMaps(inFlight.frames[p].stats, host, arg, order)} :
             StepTo(p, [inFlight.frames[p] EXCEPT !.pc = "maps", !.maps = m])

\* the classification loop of buildInterfaceInfo and its return to Collect
PassClassify(p) ==
    /\ inFlight.frames[p].pc = "maps"
    /\ StepTo(p, [inFlight.frames[p] EXCEPT
                     !.pc = "resolved",
                     !.infoMap = [iface \in DOMAIN inFlight.frames[p].stats |->
                                     Classify(iface, inFlight.frames[p].maps, host)]])

\* the emission loop of Collect, on the channel the pass was given
PassEmit(p) ==
    /\ inFlight.frames[p].pc = "resolved"
    /\ StepTo(p, [inFlight.frames[p] EXCEPT
                     !.pc = "done",
                     !.sent = Emit(inFlight.frames[p].stats, infoMapOf(inFlight, p))])

NextConc ==
    \E p \in 1..MaxConcurrent :
        \/ PassRead(p)
        \/ PassBuildMaps(p)
        \/ PassClassify(p)
        \/ PassEmit(p)

SpecConc == InitConc /\ [][NextConc]_vars

(***************************************************************************)
(* Properties.  A pass is "ok" when it did not abort; the remembered passes *)
(* were all made on the present host.                                      *)
(***************************************************************************)
Remembered == {passes[k] : k \in 1..Len(passes)}

OkPasses == {p \in Remembered : ~p.err}

InstanceTypes ==
    {"physical", "bridge", "docker", "incus", "vm", "macvtap", "vlan", "loopback", "unknown"}

\* the sources a pass found unavailable
DownOf(in) ==
    (IF in.docker.available THEN {} ELSE {"docker"})
    \cup (IF in.cgroup THEN {} ELSE {"cgroup"})
    \cup (IF in.midclt /\ in.virsh THEN {} ELSE {"vmtools"})
    \cup (IF in.vlan THEN {} ELSE {"vlanconfig"})

\* the VLAN sub-interfaces of the snapshot whose master is bridge b, by a pass's maps
VLANMembers(p, b) ==
    {x \in (DOMAIN p.maps.vlanMap) \cap (DOMAIN p.maps.bridgeMap) : p.maps.bridgeMap[x] = b}

\* C1: every ok pass returns records for exactly the interfaces of the counter
\* snapshot, and the record stored under name n has Name = n; the metrics sent
\* carry exactly those names.
C1_Coverage ==
    \A p \in OkPasses :
        /\ DOMAIN p.out = DOMAIN host.netdev
        /\ \A n \in DOMAIN p.out : p.out[n].Name = n

\* an ok pass on a snapshot that lost an interface and still holds one whose
\* operstate cannot be read
C1_Witness ==
    \E p \in OkPasses :
        /\ DOMAIN p.out # Universe
        /\ IfVlan8 \in DOMAIN p.out
        /\ p.maps.stateMap[IfVlan8] = Empty

\* C2: every record of every ok pass has an instance type of the fixed
\* enumeration; none is empty.
C2_ClosedClassification ==
    \A p \in OkPasses :
        \A n \in DOMAIN p.out : p.out[n].InstanceType \in InstanceTypes

\* one pass in which every one of the nine types occurs
C2_Witness ==
    \E p \in OkPasses : {p.out[n].InstanceType : n \in DOMAIN p.out} = InstanceTypes

\* C3 as stated: for a bridge B, a VLAN sub-interface V with id v whose master is
\* B and any non-VLAN interface M whose master is B, the VLAN id of B, V and M is v.
C3_AllMembersInherit ==
    \A p \in OkPasses :
        \A B \in DOMAIN p.out, V \in DOMAIN p.out, M \in DOMAIN p.out :
            (/\ V \in DOMAIN p.maps.vlanMap
             /\ Get(p.maps.bridgeMap, V) = B
             /\ M \notin DOMAIN p.maps.vlanMap
             /\ Get(p.maps.bridgeMap, M) = B)
            => /\ p.out[B].VLAN = p.maps.vlanMap[V].ID
               /\ p.out[V].VLAN = p.maps.vlanMap[V].ID
               /\ p.out[M].VLAN = p.maps.vlanMap[V].ID

\* C3: for a bridge B and a VLAN sub-interface V with id v whose master is B,
\* V resolves to v; B resolves to the id of one of its VLAN sub-interfaces (v when
\* they all carry v); a veth or vnet whose master is B resolves to the same id as
\* B; any other non-VLAN member of B (physical, unknown, macvtap) resolves to the
\* empty id.
C3_VLANInheritance ==
    \A p \in OkPasses :
        \A B \in DOMAIN p.out, V \in DOMAIN p.out :
            (/\ V \in DOMAIN p.maps.vlanMap
             /\ Get(p.maps.bridgeMap, V) = B
             /\ p.out[B].InstanceType = "bridge"
             /\ p.out[V].InstanceType = "vlan")
            => /\ p.out[V].VLAN = p.maps.vlanMap[V].ID
               /\ p.out[B].VLAN \in {p.maps.vlanMap[x].ID : x \in VLANMembers(p, B)}
               /\ \A M \in DOMAIN p.out :
                     (Get(p.maps.bridgeMap, M) = B /\ M \notin DOMAIN p.maps.vlanMap)
                     => IF HasPrefix(M, TxtVeth) \/ HasPrefix(M, TxtVnet)
                        THEN p.out[M].VLAN = p.out[B].VLAN
                        ELSE p.out[M].VLAN = Empty

\* a bridge with a VLAN sub-interface, a veth, a vnet and a physical member
C3_Witness ==
    \E p \in OkPasses :
        /\ {IfBr0, IfVlan7, IfVeth2, IfVnet0, IfEno1} \subseteq DOMAIN p.out
        /\ IfVlan7 \in DOMAIN p.maps.vlanMap
        /\ \A M \in {IfVlan7, IfVeth2, IfVnet0, IfEno1} : Get(p.maps.bridgeMap, M) = IfBr0
        /\ p.out[IfBr0].VLAN = Vid7
        /\ p.out[IfVeth2].VLAN = Vid7
        /\ p.out[IfEno1].VLAN = Empty

\* C4: two passes on the same host that found the same sources available return
\* identical records, also when a bridge has VLAN sub-interfaces with different ids.
C4_Idempotence ==
    \A p \in Remembered, q \in Remembered :
        (p.in = q.in) => (p.out = q.out)

\* C5 as stated: when the liveness probe of the container runtime fails, every
\* veth of the snapshot is in the output as docker, owner = its raw name, empty
\* application.
C5_AllVethsRaw ==
    \A p \in OkPasses :
        ~p.in.docker.available
        => \A n \in DOMAIN host.netdev :
              HasPrefix(n, TxtVeth)
              => /\ n \in DOMAIN p.out
                 /\ p.out[n].InstanceType = "docker"
                 /\ p.out[n].Instance = n
                 /\ p.out[n].App = Empty

\* C5: when the liveness probe of the container runtime fails, every veth of the
\* snapshot is in the output; one the cgroup scan matched is incus with owner and
\* application = the LXC name; every other one is docker, owner = its raw name,
\* empty application.
C5_GracefulDegradation ==
    \A p \in OkPasses :
        ~p.in.docker.available
        => \A n \in DOMAIN host.netdev :
              HasPrefix(n, TxtVeth)
              => /\ n \in DOMAIN p.out
                 /\ IF n \in DOMAIN p.maps.vethToIncus
                    THEN /\ p.out[n].InstanceType = "incus"
                         /\ p.out[n].Instance = p.maps.vethToIncus[n]
                         /\ p.out[n].App = p.maps.vethToIncus[n]
                    ELSE /\ p.out[n].InstanceType = "docker"
                         /\ p.out[n].Instance = n
                         /\ p.out[n].App = Empty

\* a pass with the probe failing on a host where a container holds one veth and
\* an LXC container another
C5_Witness ==
    \E p \in OkPasses :
        /\ ~p.in.docker.available
        /\ IfVeth1 \in DOMAIN p.out
        /\ IfVeth2 \in DOMAIN p.out
        /\ p.out[IfVeth1].InstanceType = "docker"
        /\ p.out[IfVeth1].Instance = IfVeth1
        /\ p.out[IfVeth2].InstanceType = "incus"
        /\ \E c \in {host.containers[k] : k \in 1..Len(host.containers)} :
              c.PID \in DOMAIN host.nsIflinks /\ host.nsIflinks[c.PID] # << >>

\* the interfaces whose case of the switch reads what source s contributes
Uses(s, n) ==
    CASE s = "docker"     -> HasPrefix(n, TxtVeth) \/ HasPrefix(n, TxtBrDash)
      [] s = "cgroup"     -> HasPrefix(n, TxtVeth)
      [] s = "vmtools"    -> HasPrefix(n, TxtVnet) \/ HasPrefix(n, TxtMacvtap)
                             \/ HasPrefix(n, TxtMacvlan)
      [] s = "vlanconfig" -> n # IfLo /\ ~HasPrefix(n, TxtMacvtap) /\ ~HasPrefix(n, TxtMacvlan)

\* C6: of two passes on the same snapshot that differ only in one source being
\* unavailable in the second, the second returns a full record set without error
\* and every interface that does not use that source has the same record in both.
C6_Isolation ==
    \A p \in OkPasses, q \in Remembered :
        \A s \in Sources :
            (s \notin DownOf(p.in) /\ DownOf(q.in) = DownOf(p.in) \cup {s})
            => /\ ~q.err
               /\ DOMAIN q.out = DOMAIN host.netdev
               /\ \A n \in DOMAIN p.out : ~Uses(s, n) => q.out[n] = p.out[n]

\* C7: a pass whose counter source cannot be read consults no source of the
\* resolver, returns no record and sends no metric; a later pass is not affected.
C7_FatalToPass ==
    /\ \A k \in 1..Len(passes) :
          passes[k].err
          => /\ passes[k].consulted \cap ResolverSources = {}
             /\ passes[k].out = EmptyMap
             /\ (k = Len(passes) => channel = {})
    /\ \A k \in 1..Len(passes) :
          (~passes[k].in.proc) = passes[k].err
    /\ \A k \in 1..Len(passes) :
          ~passes[k].err
          => /\ DOMAIN passes[k].out = DOMAIN host.netdev
             /\ (k = Len(passes)
                 => {m.labels[1] : m \in channel} = DOMAIN host.netdev)

\* an aborted pass followed by an ok pass that sent metrics
C7_Witness ==
    /\ Len(passes) = 2
    /\ passes[1].err
    /\ ~passes[2].err
    /\ channel # {}

\* C8: a veth in both the container map and the incus map is docker with owner =
\* the container's name and application = AppName(container); a veth classified
\* incus has no container match.
C8_VethPrecedence ==
    \A p \in OkPasses :
        \A n \in DOMAIN p.out :
            HasPrefix(n, TxtVeth)
            => /\ (n \in DOMAIN p.maps.vethToContainer /\ n \in DOMAIN p.maps.vethToIncus)
                  => /\ p.out[n].InstanceType = "docker"
                     /\ p.out[n].Instance = p.maps.vethToContainer[n].Name
                     /\ p.out[n].App = AppName(p.maps.vethToContainer[n])
               /\ p.out[n].InstanceType = "incus"
                  => n \notin DOMAIN p.maps.vethToContainer

\* a veth matched by both lookups, and in the same pass one classified incus
C8_Witness ==
    \E p \in OkPasses :
        /\ \E n \in DOMAIN p.out :
              /\ n \in DOMAIN p.maps.vethToContainer
              /\ n \in DOMAIN p.maps.vethToIncus
              /\ p.maps.vethToIncus[n] # p.maps.vethToContainer[n].Name
        /\ \E n \in DOMAIN p.out : p.out[n].InstanceType = "incus"

\* the position of the first underscore of s (1-based), 0 when there is none
FirstUnderscore(s) ==
    IF \E k \in 1..Len(s) : s[k] = "_"
    THEN CHOOSE k \in 1..Len(s) : s[k] = "_" /\ \A j \in 1..(k - 1) : s[j] # "_"
    ELSE 0

C10_BridgeNaming ==
    \A p \in OkPasses :
        \A n \in DOMAIN p.out :
            /\ (HasPrefix(n, TxtBrDash) /\ n \in DOMAIN p.maps.bridgeToNetwork)
               => /\ p.out[n].InstanceType = "bridge"
                  /\ p.out[n].Instance = p.maps.bridgeToNetwork[n].Name
            /\ (/\ ~HasPrefix(n, TxtBrDash)
                /\ \/ HasPrefix(n, TxtBr)
                   \/ HasPrefix(n, TxtDocker)
                   \/ HasPrefix(n, TxtIncus))
               => /\ p.out[n].InstanceType = "bridge"
                  /\ p.out[n].Instance = n
                  /\ p.out[n].App = TxtSystem

\* a pass with a br- bridge named after its network and docker0 in the map
C10_Witness ==
    \E p \in OkPasses :
        /\ IfBrAb \in DOMAIN p.maps.bridgeToNetwork
        /\ IfDocker0 \in DOMAIN p.maps.bridgeToNetwork
        /\ IfBrAb \in DOMAIN p.out
        /\ IfDocker0 \in DOMAIN p.out
        /\ p.out[IfBrAb].Instance = p.maps.bridgeToNetwork[IfBrAb].Name
        /\ p.out[IfDocker0].Instance = IfDocker0

LinkStates == {TxtUp, TxtDown, TxtUnknown}

\* C11: every record's State is up, down or unknown, whatever the operstate
\* attribute holds (unreadable, or a value other than these three).
C11_ClosedState ==
    \A p \in OkPasses :
        \A n \in DOMAIN p.out : p.out[n].State \in LinkStates

\* C12: every non-empty Bridge value names an interface of the same pass's
\* snapshot; a master link to a name absent from the snapshot leaves Bridge empty.
C12_BridgeReferences ==
    \A p \in OkPasses :
        \A n \in DOMAIN p.out :
            /\ p.out[n].Bridge # Empty => p.out[n].Bridge \in DOMAIN p.out
            /\ host.master[n] \notin DOMAIN p.out => p.out[n].Bridge = Empty

\* C13: every non-empty VLAN id of the output is the config id of the interface
\* itself, or the id recorded for its parent bridge, or (for a bridge) the id
\* recorded for itself; and every id recorded for a bridge is the config id of a
\* VLAN sub-interface of the snapshot whose master is that bridge.
C13_VLANProvenance ==
    \A p \in OkPasses :
        /\ \A b \in DOMAIN p.maps.bridgeVLAN :
              \E x \in VLANMembers(p, b) : p.maps.bridgeVLAN[b] = p.maps.vlanMap[x].ID
        /\ \A n \in DOMAIN p.out :
              p.out[n].VLAN # Empty
              => \/ /\ n \in DOMAIN p.maps.vlanMap
                    /\ p.out[n].VLAN = p.maps.vlanMap[n].ID
                 \/ /\ p.out[n].Bridge \in DOMAIN p.maps.bridgeVLAN
                    /\ p.out[n].VLAN = p.maps.bridgeVLAN[p.out[n].Bridge]
                 \/ /\ p.out[n].InstanceType = "bridge"
                    /\ n \in DOMAIN p.maps.bridgeVLAN
                    /\ p.out[n].VLAN = p.maps.bridgeVLAN[n]

\* one pass with an own id (vlan8), an inherited id (veth2) and a bridge's id (br0)
C13_Witness ==
    \E p \in OkPasses :
        /\ {IfVlan8, IfVeth2, IfBr0} \subseteq DOMAIN p.out
        /\ p.out[IfVlan8].VLAN = Vid8
        /\ p.out[IfVeth2].VLAN # Empty
        /\ p.out[IfVeth2].VLAN = p.out[IfBr0].VLAN
        /\ Cardinality(VLANMembers(p, IfBr0)) = 2

\* C14 as stated: an interface with no parent bridge and no entry of its own in
\* the VLAN config has an empty VLAN id, and so has an interface whose parent
\* bridge has no recorded VLAN id.
C14_EmptyVLAN ==
    \A p \in OkPasses :
        \A n \in DOMAIN p.out :
            /\ (p.out[n].Bridge = Empty /\ n \notin DOMAIN p.maps.vlanMap)
               => p.out[n].VLAN = Empty
            /\ (p.out[n].Bridge # Empty /\ VLANMembers(p, p.out[n].Bridge) = {})
               => p.out[n].VLAN = Empty

\* C14: an interface that has no entry of its own in the VLAN config and is not
\* the master of a VLAN sub-interface has an empty VLAN id when it has no parent
\* bridge, and when no VLAN sub-interface has its parent bridge as master.
C14_EmptyVLANNonBridge ==
    \A p \in OkPasses :
        \A n \in DOMAIN p.out :
            (/\ n \notin DOMAIN p.maps.vlanMap
             /\ VLANMembers(p, n) = {}
             /\ \/ p.out[n].Bridge = Empty
                \/ VLANMembers(p, p.out[n].Bridge) = {})
            => p.out[n].VLAN = Empty

\* a pass in which br0 carries the id of its VLAN member while br-ab and its veth,
\* with no VLAN member, carry none
C14_Witness ==
    \E p \in OkPasses :
        /\ {IfBr0, IfBrAb, IfVeth1, IfBond0} \subseteq DOMAIN p.out
        /\ p.out[IfBr0].Bridge = Empty
        /\ p.out[IfBr0].VLAN # Empty
        /\ p.out[IfVeth1].Bridge = IfBrAb
        /\ VLANMembers(p, IfBrAb) = {}
        /\ p.out[IfVeth1].VLAN = Empty
        /\ p.out[IfBrAb].VLAN = Empty
        /\ p.out[IfBond0].VLAN = Empty

\* the type the first matching rule gives, in the order lo, veth, vnet,
\* macvtap/macvlan, vlan, br/docker/incus, fallback
RuleTypes(n, inConfig, hasDriver) ==
    IF n = IfLo THEN {"loopback"}
    ELSE IF HasPrefix(n, TxtVeth) THEN {"docker", "incus"}
    ELSE IF HasPrefix(n, TxtVnet) THEN {"vm"}
    ELSE IF HasPrefix(n, TxtMacvtap) \/ HasPrefix(n, TxtMacvlan) THEN {"macvtap"}
    ELSE IF HasPrefix(n, TxtVlan) THEN {"vlan"}
    ELSE IF HasPrefix(n, TxtBr) \/ HasPrefix(n, TxtDocker) \/ HasPrefix(n, TxtIncus)
    THEN {"bridge"}
    ELSE IF inConfig THEN {"vlan"}
    ELSE IF hasDriver THEN {"physical"}
    ELSE {"unknown"}

\* C15: each interface's type is that of the first matching rule; an entry in the
\* VLAN config turns the type into vlan only for an interface that reached the
\* fallback rule.
C15_ClassificationPriority ==
    \A p \in OkPasses :
        \A n \in DOMAIN p.out :
            p.out[n].InstanceType
                \in RuleTypes(n, n \in DOMAIN p.maps.vlanMap, n \in host.driver)

\* a bridge-prefixed interface with an entry in the VLAN config that stays a bridge
C15_Witness ==
    \E p \in OkPasses :
        /\ IfBrAb \in DOMAIN p.out
        /\ IfBrAb \in DOMAIN p.maps.vlanMap
        /\ p.out[IfBrAb].InstanceType = "bridge"

\* what the management path finds for input a: the (interface, VM) pairs of the
\* inFlight VMs with a positive pid, when the query answers
PrimaryPairs(a) ==
    IF ~a.midclt THEN {}
    ELSE UNION {{<<a.qemuIfaces[a.vms[k].pid][j], a.vms[k].name>> :
                    j \in 1..Len(a.qemuIfaces[a.vms[k].pid])} :
                k \in {i \in 1..Len(a.vms) : a.vms[i].state = "RUNNING" /\ a.vms[i].pid > 0}}

\* what the hypervisor CLI would report for input a
VirshPairs(a) ==
    UNION {{<<a.domIfaces[a.vms[k].name][j], a.vms[k].name>> :
               j \in 1..Len(a.domIfaces[a.vms[k].name])} :
           k \in {i \in 1..Len(a.vms) : a.vms[i].state = "RUNNING"
                                         /\ a.vms[i].name \in DOMAIN a.domIfaces}}

\* C16: midclt is run first; virsh is run if and only if the midclt path gave an
\* empty map; when the midclt path gave at least one entry, the returned map holds
\* exactly its entries.
C16_FallbackOrder ==
    ret # << >>
    => LET r     == ret[1]
           pairs == PrimaryPairs(arg)
       IN  /\ r.calls[1] = "midclt"
           /\ (\E k \in 1..Len(r.calls) : r.calls[k] = "virsh") <=> (pairs = {})
           /\ \A k \in 2..Len(r.calls) : r.calls[k] = "virsh"
           /\ pairs # {}
              => /\ DOMAIN r.result = {pr[1] : pr \in pairs}
                 /\ \A x \in DOMAIN r.result : <<x, r.result[x]>> \in pairs

\* the midclt path found an entry, virsh answers and knows an interface the
\* midclt path did not find: virsh is not run and the interface is not mapped
C16_Witness ==
    /\ ret # << >>
    /\ PrimaryPairs(arg) # {}
    /\ arg.virsh
    /\ \E pr \in VirshPairs(arg) : pr[1] \notin DOMAIN ret[1].result
    /\ ret[1].calls = <<"midclt">>

\* line is <anything>lxc.payload.<name>/init.scope, read from the first
\* lxc.payload. of the line, with <name> not empty and free of slashes: the
\* position (0-based) of that lxc.payload., or -1
InitScopeAt(line) ==
    LET P    == TxtLxcPayload
        S    == TxtInitScope
        here == {i \in 0..(Len(line) - Len(P)) : SubSeq(line, i + 1, i + Len(P)) = P}
    IN  IF here = {} THEN -1
        ELSE LET i    == CHOOSE x \in here : \A y \in here : x <= y
                 name == SubSeq(line, i + Len(P) + 1, Len(line) - Len(S))
             IN  IF /\ Len(line) >= i + Len(P) + Len(S) + 1
                    /\ SubSeq(line, Len(line) - Len(S) + 1, Len(line)) = S
                    /\ \A k \in 1..Len(name) : name[k] # "/"
                 THEN i
                 ELSE -1

InitScopeName(line) ==
    SubSeq(line, InitScopeAt(line) + Len(TxtLxcPayload) + 1, Len(line) - Len(TxtInitScope))

\* C17: parseLXCCgroup returns the name of the first line of the form
\* lxc.payload.<name>/init.scope (name not empty, nothing after init.scope), and
\* no name when the text has no such line (another scope, a missing slash).
C17_InitScopeOnly ==
    ret # << >>
    => LET hits == {k \in 1..Len(arg) : InitScopeAt(arg[k]) >= 0}
       IN  IF hits = {}
           THEN ret[1] = Empty
           ELSE /\ ret[1] # Empty
                /\ ret[1] = InitScopeName(arg[CHOOSE k \in hits : \A j \in hits : k <= j])

\* a file whose first line is a non-init scope of one container and whose second
\* line is the init scope of another
C17_Witness ==
    /\ ret # << >>
    /\ Len(arg) = 2
    /\ arg[1] = TxtCgroupV2 \o TxtLxcPayload \o LxcName \o TxtUserSlice
    /\ arg[2] = TxtCgroupV2 \o TxtLxcPayload \o LxcName2 \o TxtInitScope
    /\ ret[1] = LxcName2

\* the host interfaces the k-th process of ps would map
ProcIfaces(ps, k) ==
    {x \in Universe : \E j \in 1..Len(ps[k].links) : BaseIfindex[x] = ps[k].links[j]}

\* the scan as the claim describes it: mapped holds the container names to which
\* an interface has been mapped so far; an init-scope process whose name is in
\* mapped is skipped
RECURSIVE DedupScan(_, _, _, _)
DedupScan(ps, k, result, mapped) ==
    IF k > Len(ps) THEN result
    ELSE IF ~ps[k].init \/ ps[k].name \in mapped
    THEN DedupScan(ps, k + 1, result, mapped)
    ELSE DedupScan(ps, k + 1,
                   [x \in (DOMAIN result) \cup ProcIfaces(ps, k) |->
                       IF x \in ProcIfaces(ps, k) THEN ps[k].name ELSE result[x]],
                   IF ProcIfaces(ps, k) # {} THEN mapped \cup {ps[k].name} ELSE mapped)

\* C18: once an interface has been mapped to a container name, every later
\* init-scope process of that name is skipped and adds or changes no entry.
C18_Dedup ==
    ret # << >> => ret[1] = DedupScan(arg, 1, EmptyMap, {})

\* t without a leading ix-
WithoutIx(t) ==
    IF Len(t) >= 3 /\ t[1] = "i" /\ t[2] = "x" /\ t[3] = "-" THEN SubSeq(t, 4, Len(t)) ELSE t

\* the position of the last hyphen of t (1-based), 0 when there is none
LastHyphen(t) ==
    IF \E k \in 1..Len(t) : t[k] = "-"
    THEN CHOOSE k \in 1..Len(t) : t[k] = "-" /\ \A j \in (k + 1)..Len(t) : t[j] # "-"
    ELSE 0

DigitsAfter(t, h) ==
    h < Len(t) /\ \A j \in (h + 1)..Len(t) : t[j] \in {"0", "1", "2", "3", "4", "5", "6", "7", "8", "9"}

\* C19 as stated: the project label without a leading ix- when the label is
\* present; otherwise the name without a leading ix- and, if the text after its
\* last hyphen is all digits, without that hyphen and suffix.
C19_AppNameAnyHyphen ==
    ret # << >>
    => IF ComposeProject \in DOMAIN arg.Labels
       THEN ret[1] = WithoutIx(arg.Labels[ComposeProject])
       ELSE LET n == WithoutIx(arg.Name)
                h == LastHyphen(n)
            IN  IF h >= 1 /\ DigitsAfter(n, h)
                THEN ret[1] = SubSeq(n, 1, h - 1)
                ELSE ret[1] = n

\* C19: the project label without a leading ix- when the label is present;
\* otherwise the name without a leading ix- and, if its last hyphen is not its
\* first character and is followed by one or more digits and nothing else,
\* without that hyphen and suffix.
C19_AppName ==
    ret # << >>
    => IF ComposeProject \in DOMAIN arg.Labels
       THEN ret[1] = WithoutIx(arg.Labels[ComposeProject])
       ELSE LET n == WithoutIx(arg.Name)
                h == LastHyphen(n)
            IN  IF h >= 2 /\ DigitsAfter(n, h)
                THEN ret[1] = SubSeq(n, 1, h - 1)
                ELSE ret[1] = n

\* the name ix-a-1 without a project label gives a
C19_Witness ==
    /\ ret # << >>
    /\ ComposeProject \notin DOMAIN arg.Labels
    /\ arg.Name = <<"i", "x", "-", "a", "-", "1">>
    /\ ret[1] = <<"a">>

\* C20: when the list call succeeds, ListContainers returns without error
\* exactly the listed containers whose inspect call succeeded, in listing order.
C20_VanishingContainers ==
    (ret # << >> /\ arg.listOK)
    => LET kept == SelectSeq(arg.ids, LAMBDA id : arg.inspect[id] # << >>)
       IN  /\ ~ret[1].err
           /\ Len(ret[1].result) = Len(kept)
           /\ \A k \in 1..Len(kept) :
                 /\ ret[1].result[k].ID = kept[k]
                 /\ <<"/">> \o ret[1].result[k].Name = arg.inspect[kept[k]][1].Name
                 /\ ret[1].result[k].PID = arg.inspect[kept[k]][1].PID
                 /\ ret[1].result[k].Labels = arg.inspect[kept[k]][1].Labels

\* three listed containers of which the second has vanished: the first and the
\* third are returned
C20_Witness ==
    /\ ret # << >>
    /\ arg.listOK
    /\ arg.ids = <<"c3", "c1", "c2">>
    /\ arg.inspect["c1"] = << >>
    /\ ~ret[1].err
    /\ Len(ret[1].result) = 2
    /\ ret[1].result[1].ID = "c3"
    /\ ret[1].result[2].ID = "c2"

\* t is made of one or more decimal digits
AllDigits(t) ==
    t # << >> /\ \A i \in 1..Len(t) : t[i] \in {"0", "1", "2", "3", "4", "5", "6", "7", "8", "9"}

\* a line with a colon and sixteen or more fields, the first sixteen numeric
WellFormedAsStated(d) ==
    d.colon /\ Len(d.fields) >= 16 /\ \A i \in 1..16 : AllDigits(d.fields[i])

\* a line with a colon and sixteen or more fields, the first sixteen decimal
\* numbers of at most 2^64 - 1
WellFormed(d) ==
    /\ WellFormedAsStated(d)
    /\ \A i \in 1..16 : ~DecGreater(StripZeros(d.fields[i]), MaxUint64)

C22_ColumnMapping ==
    (ret # << >> /\ arg.open)
    => \A k \in 1..Len(arg.lines) :
          (/\ WellFormed(arg.lines[k])
           /\ \A j \in (k + 1)..Len(arg.lines) :
                 ~(WellFormed(arg.lines[j]) /\ arg.lines[j].name = arg.lines[k].name))
          => /\ arg.lines[k].name \in DOMAIN ret[1].stats
             /\ LET f == arg.lines[k].fields
                    s == ret[1].stats[arg.lines[k].name]
                IN  /\ s.RxBytes = StripZeros(f[1])
                    /\ s.RxPackets = StripZeros(f[2])
                    /\ s.RxErrors = StripZeros(f[3])
                    /\ s.RxDropped = StripZeros(f[4])
                    /\ s.TxBytes = StripZeros(f[9])
                    /\ s.TxPackets = StripZeros(f[10])
                    /\ s.TxErrors = StripZeros(f[11])
                    /\ s.TxDropped = StripZeros(f[12])

\* the line of lo, written without a space after the colon and with 007 as its
\* third field, gives rx errors 7 and tx bytes 109
C22_Witness ==
    /\ ret # << >>
    /\ arg.open
    /\ Len(arg.lines) = 1
    /\ IfLo \in DOMAIN ret[1].stats
    /\ ret[1].stats[IfLo].RxBytes = <<"1", "0", "1">>
    /\ ret[1].stats[IfLo].RxErrors = <<"7">>
    /\ ret[1].stats[IfLo].TxBytes = <<"1", "0", "9">>
    /\ ret[1].stats[IfLo].TxDropped = <<"1", "1", "2">>

\* the columns of a line that adds an entry: not a header line (VLAN or
\* Name-Type: at its start), not blank, three or more columns, a device name
\* and a VLAN id
AddsVlanEntry(cols) ==
    /\ ~(Len(cols[1]) >= 4 /\ SubSeq(cols[1], 1, 4) = <<"V", "L", "A", "N">>)
    /\ ~(Len(cols[1]) >= 10
         /\ SubSeq(cols[1], 1, 10) = <<"N", "a", "m", "e", "-", "T", "y", "p", "e", ":">>)
    /\ Len(cols) >= 3
    /\ cols[1] # << >>
    /\ cols[2] # << >>

\* C23: without the VLAN config file the VLAN map is empty and the pass returns
\* a record for every interface; with it, exactly the lines that are neither
\* header nor blank, have three or more columns, a device name and a VLAN id
\* add their entry name -> (id, parent).
C23_VLANConfigRead ==
    ret # << >>
    => /\ ~ret[1].err
       /\ DOMAIN ret[1].out = DOMAIN BaseHost.netdev
       /\ IF ~arg.present THEN ret[1].maps.vlanMap = EmptyMap
          ELSE /\ DOMAIN ret[1].maps.vlanMap =
                     {arg.lines[k][1] : k \in {j \in 1..Len(arg.lines) : AddsVlanEntry(arg.lines[j])}}
               /\ \A k \in 1..Len(arg.lines) :
                     (/\ AddsVlanEntry(arg.lines[k])
                      /\ \A j \in (k + 1)..Len(arg.lines) :
                            ~(AddsVlanEntry(arg.lines[j]) /\ arg.lines[j][1] = arg.lines[k][1]))
                     => ret[1].maps.vlanMap[arg.lines[k][1]] =
                           [ID |-> arg.lines[k][2], Parent |-> arg.lines[k][3]]

\* a file made of a line whose name starts with VLAN and a line of four
\* columns: only the second adds an entry
C23_Witness ==
    /\ ret # << >>
    /\ arg.present
    /\ arg.lines = <<<<TxtVLANHeader \o <<"9">>, <<"9">>, IfEno1>>, <<IfBond0, Vid7, IfEno1, <<"x">>>>>>
    /\ DOMAIN ret[1].maps.vlanMap = {IfBond0}
    /\ ret[1].maps.vlanMap[IfBond0] = [ID |-> Vid7, Parent |-> IfEno1]
    /\ DOMAIN ret[1].out = DOMAIN BaseHost.netdev

\* the file is absent: no VLAN entry, and every interface has its record
C23_WitnessAbsent ==
    /\ ret # << >>
    /\ ~arg.present
    /\ arg.lines # << >>
    /\ ret[1].maps.vlanMap = EmptyMap
    /\ DOMAIN ret[1].out = DOMAIN BaseHost.netdev

\* the passes that have returned
DonePasses == {p \in 1..MaxConcurrent : inFlight.frames[p].pc = "done"}

\* C24: no field of the collector is written, and a pass that ran interleaved
\* with others ends with maps, records and metrics that a pass run alone on the
\* same sources can end with.
C24_PassIsolation ==
    /\ inFlight.collector = CollectorFields
    /\ \A p \in DonePasses :
          \E order \in Orders(VLANWriters(host, arg)) :
             \E c \in {Collect(host, arg, order)} :
                /\ c.err = inFlight.frames[p].err
                /\ c.maps = inFlight.frames[p].maps
                /\ c.out = inFlight.frames[p].infoMap
                /\ c.emitted = inFlight.frames[p].sent

\* the first pass has returned its metrics while the last one has read the
\* counters and not yet resolved them
C24_Witness ==
    /\ inFlight.frames[1].pc = "done"
    /\ ~inFlight.frames[1].err
    /\ inFlight.frames[1].sent # {}
    /\ inFlight.frames[MaxConcurrent].pc = "read"

\* the counter a metric name reports (from the names of the eight metrics)
CounterOf(d) ==
    CASE d = "net_interface_rx_bytes_total"   -> "RxBytes"
      [] d = "net_interface_rx_packets_total" -> "RxPackets"
      [] d = "net_interface_rx_errors_total"  -> "RxErrors"
      [] d = "net_interface_rx_dropped_total" -> "RxDropped"
      [] d = "net_interface_tx_bytes_total"   -> "TxBytes"
      [] d = "net_interface_tx_packets_total" -> "TxPackets"
      [] d = "net_interface_tx_errors_total"  -> "TxErrors"
      [] d = "net_interface_tx_dropped_total" -> "TxDropped"

EightMetrics ==
    {"net_interface_rx_bytes_total", "net_interface_rx_packets_total",
     "net_interface_rx_errors_total", "net_interface_rx_dropped_total",
     "net_interface_tx_bytes_total", "net_interface_tx_packets_total",
     "net_interface_tx_errors_total", "net_interface_tx_dropped_total"}

\* the pairing of C25, with val(c) the value a metric carries for counter c
Pairing(val(_)) ==
    ret # << >>
    => LET sent == ret[1].sent
           of(i) == {k \in 1..Len(sent) : sent[k].labels[1] = i}
       IN  /\ Len(sent) = 8 * Cardinality(arg.ifaces)
           /\ \A k \in 1..Len(sent) : sent[k].labels[1] \in arg.ifaces
           /\ \A i \in arg.ifaces :
                 /\ Cardinality(of(i)) = 8
                 /\ {sent[k].desc : k \in of(i)} = EightMetrics
                 /\ \A k \in of(i) :
                       /\ sent[k].labels =
                             <<i, ret[1].infoMap[i].Instance, ret[1].infoMap[i].InstanceType,
                               ret[1].infoMap[i].App, ret[1].infoMap[i].Bridge,
                               ret[1].infoMap[i].VLAN, ret[1].infoMap[i].State>>
                       /\ sent[k].value = val(EmitStats(arg)[i][CounterOf(sent[k].desc)])

\* C25 as stated: eight metrics per interface of the snapshot, one per counter,
\* with the seven labels of the interface's record and the counter values of
\* the snapshot; no metric for another name.
C25_EmissionAsStated == Pairing(LAMBDA c : c)

\* C25: eight metrics per interface of the snapshot, one per counter, with the
\* seven labels of the interface's record and the counter values of the
\* snapshot converted to float64; no metric for another name.
C25_EmissionPairing == Pairing(Float64)

\* a snapshot of two interfaces, one with an rx bytes counter of 2^53 + 3:
\* sixteen metrics, its rx bytes metric carries 2^53 + 4
C25_Witness ==
    /\ ret # << >>
    /\ arg.ifaces = {IfEno1, IfVeth1}
    /\ arg.v = <<1>> \o Zeros(51) \o <<1, 1>>
    /\ Len(ret[1].sent) = 16
    /\ \E k \in 1..16 :
          /\ ret[1].sent[k].desc = "net_interface_rx_bytes_total"
          /\ ret[1].sent[k].labels[1] = IfVeth1
          /\ ret[1].sent[k].labels[3] = "docker"
          /\ ret[1].sent[k].value = <<1>> \o Zeros(50) \o <<1, 0, 0>>

\* n starts with the letters of t
StartsWith(n, t) == Len(n) >= Len(t) /\ \A i \in 1..Len(t) : n[i] = t[i]

\* C26: an interface named macvtap... or macvlan... has an empty VLAN id
\* whatever its bridge, and an interface named vnet... or veth... under a
\* bridge has the VLAN id recorded for that bridge.
C26_NoMacvtapInheritance ==
    ret # << >>
    => \A n \in DOMAIN ret[1].result :
          /\ (StartsWith(n, <<"m", "a", "c", "v", "t", "a", "p">>)
              \/ StartsWith(n, <<"m", "a", "c", "v", "l", "a", "n">>))
             => ret[1].result[n].VLAN = << >>
          /\ ((StartsWith(n, <<"v", "n", "e", "t">>) \/ StartsWith(n, <<"v", "e", "t", "h">>))
              /\ n \in DOMAIN ret[1].maps.bridgeMap)
             => ret[1].result[n].VLAN =
                   (IF ret[1].maps.bridgeMap[n] \in DOMAIN ret[1].maps.bridgeVLAN
                    THEN ret[1].maps.bridgeVLAN[ret[1].maps.bridgeMap[n]] ELSE << >>)

\* macvtap0, macvlan1 (with its own VLAN config entry), vnet0 and veth2 are all
\* under br0, for which id 7 is recorded: the first two have no id, the others 7
C26_Witness ==
    /\ ret # << >>
    /\ arg.own
    /\ \A n \in {IfMacvtap0, IfMacvlan1, IfVnet0, IfVeth2} : ret[1].result[n].Bridge = IfBr0
    /\ Get(ret[1].maps.bridgeVLAN, IfBr0) = Vid7
    /\ ret[1].result[IfMacvtap0].VLAN = Empty
    /\ ret[1].result[IfMacvlan1].VLAN = Empty
    /\ ret[1].result[IfVnet0].VLAN = Vid7
    /\ ret[1].result[IfVeth2].VLAN = Vid7

\* C27: an id is recorded for a bridge only from a VLAN sub-interface whose
\* direct master it is; a veth or vnet interface reads the id of its direct
\* master only; and when bridge B1 is a member of bridge B2 and no VLAN
\* sub-interface has B1 as its master, every member of B1 has an empty VLAN id,
\* whatever is recorded for B2.
C27_OneLevelInheritance ==
    ret # << >>
    => LET m   == ret[1].maps
           res == ret[1].result
       IN  /\ \A b \in DOMAIN m.bridgeVLAN :
                 \E v \in DOMAIN m.vlanMap :
                    /\ v \in DOMAIN m.bridgeMap
                    /\ m.bridgeMap[v] = b
                    /\ m.bridgeVLAN[b] = m.vlanMap[v].ID
           /\ \A n \in DOMAIN res :
                 (n \notin DOMAIN m.vlanMap /\ res[n].InstanceType # "bridge"
                  /\ res[n].VLAN # << >>)
                 => /\ n \in DOMAIN m.bridgeMap
                    /\ m.bridgeMap[n] \in DOMAIN m.bridgeVLAN
                    /\ res[n].VLAN = m.bridgeVLAN[m.bridgeMap[n]]
           /\ \A b1 \in DOMAIN m.bridgeMap :
                 (~ \E v \in DOMAIN m.vlanMap :
                       v \in DOMAIN m.bridgeMap /\ m.bridgeMap[v] = b1)
                 => \A n \in DOMAIN res :
                       (n \in DOMAIN m.bridgeMap /\ m.bridgeMap[n] = b1)
                       => res[n].VLAN = << >>

\* br-ab is a member of br0, id 7 is recorded for br0 and nothing for br-ab:
\* veth1 and vnet0, members of br-ab, and br-ab itself have no VLAN id
C27_Witness ==
    /\ ret # << >>
    /\ Get(ret[1].maps.bridgeMap, IfBrAb) = IfBr0
    /\ Get(ret[1].maps.bridgeVLAN, IfBr0) = Vid7
    /\ IfBrAb \notin DOMAIN ret[1].maps.bridgeVLAN
    /\ ret[1].result[IfVeth1].Bridge = IfBrAb
    /\ ret[1].result[IfVnet0].Bridge = IfBrAb
    /\ ret[1].result[IfVeth1].VLAN = Empty
    /\ ret[1].result[IfVnet0].VLAN = Empty
    /\ ret[1].result[IfBrAb].VLAN = Empty

\* C28: an interface named br-... without an entry in the bridge-to-network map
\* is a bridge owned by its own interface name with an empty application, and
\* one whose network has a name that does not start with ix- has an empty
\* application too.
C28_UnmatchedHashBridge ==
    \A p \in OkPasses :
        \A n \in DOMAIN p.out :
            HasPrefix(n, TxtBrDash)
            => /\ n \notin DOMAIN p.maps.bridgeToNetwork
                  => /\ p.out[n].InstanceType = "bridge"
                     /\ p.out[n].Instance = n
                     /\ p.out[n].App = << >>
               /\ (/\ n \in DOMAIN p.maps.bridgeToNetwork
                   /\ ~HasPrefix(p.maps.bridgeToNetwork[n].Name, <<"i", "x", "-">>))
                  => /\ p.out[n].InstanceType = "bridge"
                     /\ p.out[n].App = << >>

\* one remembered pass saw br-ab without a network and another saw it with the
\* network lan_a: owner br-ab in the first, lan_a in the second, no application
\* in either
C28_Witness ==
    /\ \E p \in OkPasses :
          /\ IfBrAb \in DOMAIN p.out
          /\ IfBrAb \notin DOMAIN p.maps.bridgeToNetwork
          /\ p.out[IfBrAb].Instance = IfBrAb
          /\ p.out[IfBrAb].App = Empty
    /\ \E q \in OkPasses :
          /\ IfBrAb \in DOMAIN q.out
          /\ IfBrAb \in DOMAIN q.maps.bridgeToNetwork
          /\ q.maps.bridgeToNetwork[IfBrAb].Name = NetPlain
          /\ q.out[IfBrAb].Instance = NetPlain
          /\ q.out[IfBrAb].App = Empty

\* entry e of vm.query passes the filter
PassesFilter(e) == e.state = "RUNNING" /\ e.pid > 0

\* the midclt query retains exactly the entries that are RUNNING with a
\* positive pid, in their order
RetainedIsFiltered ==
    ret[1].retained =
        (IF arg.midclt THEN vmEntries(SelectSeq(arg.vms, PassesFilter)) ELSE << >>)

\* C29 as stated: the primary path retains an entry if and only if it is
\* RUNNING with a positive pid, and every interface of the returned map is
\* mapped to a VM that has such an entry.
C29_FilterAsStated ==
    ret # << >>
    => /\ RetainedIsFiltered
       /\ \A x \in DOMAIN ret[1].result :
             \E k \in 1..Len(arg.vms) :
                /\ arg.vms[k].name = ret[1].result[x]
                /\ PassesFilter(arg.vms[k])

\* C29: the primary path retains an entry if and only if it is RUNNING with a
\* positive pid, and every interface that the primary path maps is mapped to
\* a retained VM that holds it; the other entries of the returned map come from
\* the fallback path, which ran because the primary path mapped nothing.
C29_RunningVMFilter ==
    ret # << >>
    => /\ RetainedIsFiltered
       /\ \A x \in DOMAIN ret[1].result :
             \/ /\ ret[1].calls = <<"midclt">>
                /\ \E k \in 1..Len(arg.vms) :
                      /\ arg.vms[k].name = ret[1].result[x]
                      /\ PassesFilter(arg.vms[k])
                      /\ \E j \in 1..Len(arg.qemuIfaces[arg.vms[k].pid]) :
                            arg.qemuIfaces[arg.vms[k].pid][j] = x
             \/ /\ ret[1].calls = <<"midclt", "virsh">>
                /\ PrimaryPairs(arg) = {}
                /\ <<x, ret[1].result[x]>> \in VirshPairs(arg)

\* the query lists a RUNNING VM with pid 0 holding vnet0 before a retained one
\* holding macvtap0: only the second is retained and vnet0 is not mapped
C29_Witness ==
    /\ ret # << >>
    /\ arg.midclt
    /\ Len(arg.vms) = 2
    /\ arg.vms[1] = [name |-> VmName2, state |-> "RUNNING", pid |-> 0]
    /\ arg.vms[2] = [name |-> VmName2, state |-> "RUNNING", pid |-> 31]
    /\ ret[1].retained = <<[name |-> VmName2, pid |-> 31]>>
    /\ ret[1].calls = <<"midclt">>
    /\ DOMAIN ret[1].result = {IfMacvtap0}

\* the host interfaces that the namespaces of the listed containers with a
\* positive pid are linked to
LinkedVeths(a) ==
    {x \in DOMAIN BaseIfindex :
        \E k \in 1..Len(a.containers) :
           /\ a.containers[k].PID > 0
           /\ \E j \in 1..Len(HostWithDocker(a).nsIflinks[a.containers[k].PID]) :
                 HostWithDocker(a).nsIflinks[a.containers[k].PID][j] = BaseIfindex[x]}

\* C30: when the liveness probe succeeds, the veth-to-container map is empty if
\* the container listing fails and otherwise holds the host interfaces linked
\* to the listed containers with a positive pid, whether or not the network
\* listing fails; the bridge-to-network map is empty if the network listing
\* fails and otherwise holds the listed networks with a non-empty bridge name,
\* whether or not the container listing fails; no container with pid <= 0 is a
\* value of the first map and the empty name is never a key of the second.
C30_IndependentSubResults ==
    (ret # << >> /\ arg.docker.available)
    => /\ DOMAIN ret[1].vethMap = (IF arg.docker.list THEN LinkedVeths(arg) ELSE {})
       /\ \A x \in DOMAIN ret[1].vethMap : ret[1].vethMap[x].PID > 0
       /\ DOMAIN ret[1].netMap =
             (IF arg.docker.nets
              THEN {arg.networks[k].BridgeName : k \in 1..Len(arg.networks)} \ {<< >>}
              ELSE {})
       /\ \A b \in DOMAIN ret[1].netMap :
             \E k \in 1..Len(arg.networks) :
                /\ arg.networks[k] = ret[1].netMap[b]
                /\ arg.networks[k].BridgeName = b
                /\ \A j \in (k + 1)..Len(arg.networks) : arg.networks[j].BridgeName # b

\* the probe succeeds, the container listing fails and the network listing
\* answers a network on br-ab and one without a bridge name: no container is
\* mapped and br-ab is the only bridge with a network
C30_Witness ==
    /\ ret # << >>
    /\ arg.docker = [available |-> TRUE, list |-> FALSE, nets |-> TRUE]
    /\ arg.containers = <<CtrGraf, CtrStopped>>
    /\ arg.networks = <<NetworkGraf, NetworkHost>>
    /\ ret[1].vethMap = EmptyMap
    /\ DOMAIN ret[1].netMap = {IfBrAb}
    /\ ret[1].netMap[IfBrAb] = NetworkGraf

\* the probe and both listings succeed and a listed container with pid 0 has a
\* namespace directory linked to veth2: veth2 is not mapped
C30_StoppedContainerSeen ==
    /\ ret # << >>
    /\ arg.docker = [available |-> TRUE, list |-> TRUE, nets |-> TRUE]
    /\ arg.containers = <<CtrGraf, CtrStopped>>
    /\ arg.ns0 = <<10>>
    /\ DOMAIN ret[1].vethMap = {IfVeth1}

====
